---- MODULE Spec2Model ----
(***************************************************************************)
(* State-machine model of the runtime core of renegade-project:            *)
(*   - StageHandler (src/stage.py): scheduled and conditional callbacks;   *)
(*   - Boss / BossPhase (src/boss.py) with the Bomb (src/bullet.py) and    *)
(*     OffsetFiringSite (src/entity.py) objects a phase entry creates.     *)
(*   - Pattern / CompoundPattern (src/pattern.py): cadence, projectiles;   *)
(*   - Formation (src/formation.py): spawn, firing sites, removal.         *)
(*   - Bullet, Missile, Bomb (src/bullet.py): collisions, homing, life.    *)
(* Each part has its own specification over the shared variables; the      *)
(* variables of the other parts stay at their initial value.               *)
(***************************************************************************)
EXTENDS Integers, Sequences, FiniteSets, TLC

(***************************************************************************)
(* Bounds of the model.                                                    *)
(***************************************************************************)
\* largest value of pygame.time.get_ticks() the stage model explores
MaxClock == 2
\* largest number of StageEvent / conditional registrations in one run
MaxReg == 2
\* largest number of phases of a boss
MaxPhases == 2
\* largest max_hp of a phase
MaxHp == 2
\* largest number of take_damage() calls in one tick
MaxHits == 2
\* largest length of a pattern's projectile list
MaxProj == 2

VARIABLES
    \* ---- StageHandler (src/stage.py) and what its callbacks read ----
    clock,               \* pygame.time.get_ticks()
    events,              \* StageHandler.events: sequence of StageEvent
    conditional_events,  \* StageHandler.conditional_events: sequence of pairs
    start_time,          \* StageHandler.start_time
    waves_done,          \* StageHandler._waves_done
    flag,                \* world state a predicate reads (e.g. end_banner.done)
    hist,                \* observation of the callbacks that were invoked
    \* ---- Boss (src/boss.py) and the sprites a phase entry creates ----
    world,               \* the Boss, its BossPhases, its Bombs, the scroll speed
    frame,               \* the driver's position in the current tick
    obs,                 \* observation of the boss's phase changes
    \* ---- Pattern / CompoundPattern (src/pattern.py) on its own ----
    pat,                 \* the clock, the pattern object, what it has done
    \* ---- Formation (src/formation.py) ----
    form,                \* the clock, the formation, its enemies and sites
    \* ---- Bullet, Missile, Bomb (src/bullet.py) ----
    ent,                 \* one projectile, the sprites it can touch
    \* ---- a stage as stagebuilder.py builds it ----
    game                 \* the sprite groups, the banner, what has happened

stageVars == <<clock, events, conditional_events, start_time, waves_done, flag, hist>>

bossVars == <<world, frame, obs>>

partVars == <<pat, form, ent, game>>

vars == <<clock, events, conditional_events, start_time, waves_done, flag, hist,
          world, frame, obs, pat, form, ent, game>>

(***************************************************************************)
(* Values of the boss part before any boss exists                          *)
(***************************************************************************)
\* help.ORIGINAL_SCROLL_SPEED
ORIGINAL_SCROLL_SPEED == 2

\* The state before any boss exists.
NoBoss ==
    [ phases |-> <<>>, idx |-> 0, cp |-> 0, hp |-> <<>>, age |-> 0,
      health |-> 0, bomb_immunity |-> FALSE, transitioning |-> FALSE,
      active |-> FALSE, alive |-> FALSE, bombs |-> <<>>,
      scroll |-> ORIGINAL_SCROLL_SPEED,
      pats |-> <<>>,    \* per phase: BossPhase.patterns
      sites |-> <<>> ]  \* per phase: the OffsetFiringSites its start() made,
                        \* TRUE while in global_sprites

FrameInit == [bossPend |-> FALSE, hits |-> 0]

\* What an observer of the boss has seen.
ObsInit ==
    [ op      |-> "init",  \* last call
      prevIdx |-> 0,       \* the phase index before it
      nhit    |-> 0,       \* damaging calls since the current phase began
      adv     |-> [k |-> 0, late |-> FALSE, nhit |-> 0, by |-> "init"],
                           \* the last phase left: which, whether its elapsed
                           \* time was past its duration, after how many
                           \* damaging calls, by what call
      immuneChange |-> FALSE, \* a call made while immune changed hp/health/idx
      tickIdx |-> 0,       \* the phase index when the tick began
      zeroDur |-> FALSE,   \* this tick take_damage() took a phase's hp to <= 0
                           \* while that phase's duration had elapsed
      upd     |-> FALSE,   \* this tick update() has run
      lateFire |-> FALSE ] \* an update() made a pattern of a phase already
                           \* left create a projectile

\* The state before any pattern or formation under study exists.
NoPattern == [op |-> "none"]

NoFormation == [op |-> "none"]

NoEntity == [op |-> "none"]

NoGame == [op |-> "none"]

PartsAtRest ==
    pat = NoPattern /\ form = NoFormation /\ ent = NoEntity /\ game = NoGame

Min(a, b) == IF a < b THEN a ELSE b

(***************************************************************************)
(* StageHandler                                                            *)
(***************************************************************************)
\* Delays passed to schedule(): 0 (as for start_mission) and a later time.
Delays == {0, 2}

\* The callbacks given to schedule(), by what they do to the handler: nothing
\* the handler sees, stage.mark_waves_done, or a callback that itself calls
\* schedule() while the event list is being iterated.
EventActs == {"none", "mark", "sched"}

\* The callbacks given to wait_until(): nothing the handler sees,
\* stage.mark_waves_done, or a callback that itself calls wait_until().
CondActs == {"none", "mark", "wait"}

\* The predicates given to wait_until(): stage.all_waves_scheduled() and a
\* predicate over the world (e.g. end_banner_done).
Conds == {"waves", "flag"}

Pairs == [cond : Conds, action : CondActs]

\* The pairs the stage builders register: wait_until(
\* no_more_enemies_and_formations, spawn_boss), the same for spawn_boss2
\* (build_stage5) and show_end_banner, and wait_until(end_banner_done,
\* end_stage).
BuiltPairs ==
    { [cond |-> "no_more", action |-> "spawn_boss"],
      [cond |-> "no_more", action |-> "spawn_boss2"],
      [cond |-> "no_more", action |-> "show_end_banner"],
      [cond |-> "banner_done", action |-> "end_stage"] }

ZeroPairs == [p \in Pairs \cup BuiltPairs |-> 0]

\* Registrations an action makes when it runs (one for "sched" and "wait").
Nested(a) == IF a \in {"sched", "wait"} THEN 1 ELSE 0

StageEvent(d, a) == [time |-> d, action |-> a, triggered |-> FALSE]

\* What an observer of the callbacks has seen.
HistInit ==
    [ op      |-> "init",     \* last operation on the handler
      fired   |-> <<>>,       \* invocations of each StageEvent of events
      early   |-> FALSE,      \* an event ran while elapsed time < its delay
      bal     |-> ZeroPairs,  \* per pair: registered - invoked - reset away
      cBad    |-> FALSE,      \* a pair ran though its predicate was false
      elapsed |-> 0,          \* the last update: its current_time,
      due     |-> {},         \*   the untriggered events due when it began,
      order   |-> <<>>,       \*   the events it invoked, in order,
      snap    |-> <<>>,       \*   the pairs it iterated over,
      nEval   |-> ZeroPairs,  \*   how many predicates it evaluated,
      nTrue   |-> ZeroPairs,  \*   how many of them evaluated true,
      nRun    |-> ZeroPairs ] \*   and how many it invoked

\* The observation after an operation other than update().
Seen(h, name) ==
    [h EXCEPT !.op = name, !.elapsed = 0, !.due = {}, !.order = <<>>,
              !.snap = <<>>, !.nEval = ZeroPairs, !.nTrue = ZeroPairs,
              !.nRun = ZeroPairs]

\* StageHandler.__init__
StageNew(now) ==
    [ events |-> <<>>, conditional_events |-> <<>>, start_time |-> now,
      waves_done |-> FALSE ]

\* The handler, the world and the observation as one value, threaded through
\* the body of update().
Ctx == [ events |-> events, conds |-> conditional_events, waves |-> waves_done,
         flag |-> flag, h |-> hist, g |-> game ]

\* What the callbacks of a built stage note of what has happened.
Logged(g, e) == IF g = NoGame THEN g ELSE [g EXCEPT !.log = Append(@, e)]

\* len(enemies): the static FiringSites, the enemies the formations
\* spawned, the Boss.
EnemyCount(g) ==
    (IF g.sites THEN 1 ELSE 0) + g.enemies + g.wanderers
        + (IF g.boss THEN 1 ELSE 0)

\* The spawners and utilities a stage builder defines. wave / midboss:
\* a PopcornFormation / BigEnemyFormation is created in formations;
\* kill_static_sites; kill_all (the static sites and every sprite of
\* enemies); spawn_boss and spawn_boss2 (guarded by their nonlocal flags,
\* the Boss is created in enemies); show_end_banner; end_stage.
BuiltAction(g, a) ==
    CASE a = "wave" ->
             [g EXCEPT !.formations =
                           Append(@, [kind |-> "popcorn", spawned |-> FALSE])]
      [] a = "midboss" ->
             [g EXCEPT !.formations =
                           Append(@, [kind |-> "midboss", spawned |-> FALSE])]
      [] a = "kill_static_sites" -> [g EXCEPT !.sites = FALSE]
      [] a = "kill_all" ->
             LET g1 == [g EXCEPT !.sites = FALSE, !.enemies = 0,
                                 !.wanderers = 0, !.boss = FALSE]
             IN  IF g.boss THEN Logged(g1, "gone") ELSE g1
      [] a = "spawn_boss" ->
             IF g.boss_spawned THEN g
             ELSE Logged([g EXCEPT !.boss_spawned = TRUE, !.boss = TRUE],
                         "boss")
      [] a = "spawn_boss2" ->
             IF g.boss2_spawned THEN g
             ELSE Logged([g EXCEPT !.boss2_spawned = TRUE, !.boss = TRUE],
                         "boss")
      [] a = "show_end_banner" ->
             Logged([g EXCEPT !.banner = "shown"], "banner")
      [] a = "end_stage" -> Logged([g EXCEPT !.state = "next"], "end")
      [] OTHER -> g

\* schedule(delay_ms, action): events.append(StageEvent(...))
DoSchedule(c, d, a) ==
    [c EXCEPT !.events = Append(@, StageEvent(d, a)),
              !.h.fired = Append(@, 0)]

\* wait_until(condition, action): conditional_events.append((condition, action))
DoWaitUntil(c, p) ==
    [c EXCEPT !.conds = Append(@, p),
              !.h.bal[p] = @ + 1]

\* action(): the effect of a registered callback
RunAction(c, a) ==
    CASE a = "mark"  -> [c EXCEPT !.waves = TRUE, !.g = Logged(@, "mark")]
      [] a = "sched" -> DoSchedule(c, 0, "none")
      [] a = "wait"  -> DoWaitUntil(c, [cond |-> "flag", action |-> "none"])
      [] a = "none"  -> c
      [] OTHER       -> [c EXCEPT !.g = BuiltAction(@, a)]

\* condition(): the value of a registered predicate
\* built stages: no_more_enemies_and_formations, end_banner_done
EvalCond(c, k) ==
    CASE k = "waves" -> c.waves
      [] k = "no_more" ->
             c.waves /\ EnemyCount(c.g) = 0 /\ c.g.formations = <<>>
      [] k = "banner_done" -> c.g.banner = "done"
      [] OTHER -> c.flag

\* list.remove(x): drops the first element equal to x
RECURSIVE RemoveFirst(_, _)
RemoveFirst(s, x) ==
    IF s = <<>> THEN <<>>
    ELSE IF Head(s) = x THEN Tail(s)
    ELSE <<Head(s)>> \o RemoveFirst(Tail(s), x)

Count(s, x) == Cardinality({i \in DOMAIN s : s[i] = x})

\* The observer's note of event i being invoked at elapsed time now.
NoteEvent(c, i, now) ==
    [c EXCEPT !.h.fired[i] = @ + 1,
              !.h.early = @ \/ now < c.events[i].time,
              !.h.order = Append(@, i)]

\* Mutant: the event is not marked triggered after its action ran.
FireEventNoMark(c, i, now) ==
    RunAction(NoteEvent(c, i, now), c.events[i].action)

\* event.action(); event.triggered = True
FireEvent(c, i, now) ==
    LET c1 == RunAction(NoteEvent(c, i, now), c.events[i].action)
    IN  [c1 EXCEPT !.events[i].triggered = TRUE]

\* Mutant: the first loop of update() stops after the first event it fires.
RECURSIVE UpdateEventsBreak(_, _, _)
UpdateEventsBreak(c, i, now) ==
    IF i > Len(c.events) THEN c
    ELSE IF ~c.events[i].triggered /\ now >= c.events[i].time
         THEN FireEvent(c, i, now)
         ELSE UpdateEventsBreak(c, i + 1, now)

\* for event in self.events: if not event.triggered and current_time >=
\* event.time: ...  (a list that grows while iterated is iterated to its end)
RECURSIVE UpdateEvents(_, _, _)
UpdateEvents(c, i, now) ==
    IF i > Len(c.events) THEN c
    ELSE IF ~c.events[i].triggered /\ now >= c.events[i].time
         THEN UpdateEvents(FireEvent(c, i, now), i + 1, now)
         ELSE UpdateEvents(c, i + 1, now)

\* The observer's note of pair p being invoked after its predicate gave v.
NotePair(c, p, v) ==
    [c EXCEPT !.h.bal[p] = @ - 1, !.h.nRun[p] = @ + 1, !.h.cBad = @ \/ ~v]

\* Mutant: the pair is invoked but not removed from conditional_events.
CondStepKeep(c, p) ==
    LET v  == EvalCond(c, p.cond)
        c0 == [c EXCEPT !.h.nEval[p] = @ + 1,
                        !.h.nTrue[p] = IF v THEN @ + 1 ELSE @]
    IN  IF v THEN RunAction(NotePair(c0, p, v), p.action) ELSE c0

\* if condition(): action(); self.conditional_events.remove((condition, action))
CondStep(c, p) ==
    LET v  == EvalCond(c, p.cond)
        c0 == [c EXCEPT !.h.nEval[p] = @ + 1,
                        !.h.nTrue[p] = IF v THEN @ + 1 ELSE @]
    IN  IF v
        THEN LET c1 == RunAction(NotePair(c0, p, v), p.action)
             IN  [c1 EXCEPT !.conds = RemoveFirst(@, p)]
        ELSE c0

\* for condition, action in self.conditional_events[:]: ...  (over a copy)
RECURSIVE UpdateConds(_, _, _)
UpdateConds(c, snap, j) ==
    IF j > Len(snap) THEN c
    ELSE UpdateConds(CondStep(c, snap[j]), snap, j + 1)

\* StageHandler.update() as a function of the state before it
UpdateResult ==
    LET now == clock - start_time
        c0  == [Ctx EXCEPT !.h = [Seen(hist, "update") EXCEPT
                    !.elapsed = now,
                    !.due = {i \in DOMAIN events :
                                ~events[i].triggered /\ events[i].time <= now}]]
        c1  == UpdateEvents(c0, 1, now)
        c2  == [c1 EXCEPT !.h.snap = c1.conds]
    IN  UpdateConds(c2, c1.conds, 1)

\* Registrations that exist or that a registered callback can still make.
Load ==
    Len(events) + Len(conditional_events)
    + Cardinality({i \in DOMAIN events :
                     ~events[i].triggered /\ Nested(events[i].action) = 1})
    + Cardinality({j \in DOMAIN conditional_events :
                     Nested(conditional_events[j].action) = 1})

InitStage ==
    /\ clock = 0
    /\ events = StageNew(0).events
    /\ conditional_events = StageNew(0).conditional_events
    /\ start_time = StageNew(0).start_time
    /\ waves_done = StageNew(0).waves_done
    /\ flag = FALSE
    /\ hist = HistInit
    /\ world = NoBoss
    /\ frame = FrameInit
    /\ obs = ObsInit
    /\ PartsAtRest

Install(c) ==
    /\ events' = c.events
    /\ conditional_events' = c.conds
    /\ waves_done' = c.waves
    /\ flag' = c.flag
    /\ hist' = c.h

\* stage.schedule(d, a)
Schedule ==
    \E d \in Delays, a \in EventActs :
        /\ Load + 1 + Nested(a) <= MaxReg
        /\ Install(DoSchedule([Ctx EXCEPT !.h = Seen(hist, "schedule")], d, a))
        /\ UNCHANGED <<clock, start_time, bossVars, partVars>>

\* stage.wait_until(k, a)
WaitUntil ==
    \E p \in Pairs :
        /\ Load + 1 + Nested(p.action) <= MaxReg
        /\ Install(DoWaitUntil([Ctx EXCEPT !.h = Seen(hist, "wait_until")], p))
        /\ UNCHANGED <<clock, start_time, bossVars, partVars>>

\* stage.update()
StageUpdate ==
    /\ Install(UpdateResult)
    /\ UNCHANGED <<clock, start_time, bossVars, partVars>>

\* stage.reset(): start_time is restamped, the triggered flags are cleared on
\* events that are then dropped, both lists are cleared; _waves_done is not
\* assigned.
StageReset ==
    /\ start_time' = clock
    /\ conditional_events' = <<>>
    /\ events' = <<>>
    /\ hist' = [Seen(hist, "reset") EXCEPT
                   !.fired = <<>>,
                   !.bal = [p \in DOMAIN hist.bal |->
                               hist.bal[p] - Count(conditional_events, p)]]
    /\ UNCHANGED <<clock, waves_done, flag, bossVars, partVars>>

\* stage.mark_waves_done()
MarkWavesDone ==
    /\ waves_done' = TRUE
    /\ hist' = Seen(hist, "mark_waves_done")
    /\ UNCHANGED <<clock, events, conditional_events, start_time, flag, bossVars, partVars>>

\* stage.all_waves_scheduled()
all_waves_scheduled == waves_done

\* The clock advances between calls.
ClockTick ==
    /\ clock < MaxClock
    /\ clock' = clock + 1
    /\ hist' = Seen(hist, "tick")
    /\ UNCHANGED <<events, conditional_events, start_time, waves_done, flag, bossVars, partVars>>

\* The world changes between calls (enemies die, a banner finishes).
WorldChange ==
    /\ flag' = ~flag
    /\ hist' = Seen(hist, "world")
    /\ UNCHANGED <<clock, events, conditional_events, start_time, waves_done,
                   bossVars, partVars>>

NextStage ==
    \/ Schedule
    \/ WaitUntil
    \/ StageUpdate
    \/ StageReset
    \/ MarkWavesDone
    \/ ClockTick
    \/ WorldChange

SpecStage == InitStage /\ [][NextStage]_vars

(***************************************************************************)
(* Claims about StageHandler, checked under SpecStage.                     *)
(***************************************************************************)
Range(s) == {s[i] : i \in DOMAIN s}

\* C1: a scheduled event's action is never invoked by an update() whose
\* elapsed time is below its delay, it has been invoked once every update()
\* whose elapsed time is at or past its delay has returned, and however many
\* update() calls follow it is invoked once in total (invoked exactly when
\* marked triggered, never twice).
C1_ScheduledFiresOnce ==
    /\ ~hist.early
    /\ Len(hist.fired) = Len(events)
    /\ \A i \in DOMAIN events :
          hist.fired[i] = IF events[i].triggered THEN 1 ELSE 0
    /\ hist.op = "update" =>
          \A i \in DOMAIN events :
              events[i].time <= hist.elapsed <=> hist.fired[i] = 1

\* C1 witness: an update() has returned that found an event with a positive
\* delay already invoked by an earlier update() and did not invoke it again.
C1_Witness ==
    /\ hist.op = "update"
    /\ \E i \in DOMAIN events :
          /\ events[i].time > 0
          /\ hist.fired[i] = 1
          /\ i \notin Range(hist.order)

\* C2: a wait_until pair is never invoked in an update() in which its
\* predicate evaluated false, an update() evaluates every registered pair and
\* invokes each one whose predicate evaluated true, and each registration is
\* invoked once and then discarded (the pairs still registered are exactly
\* those registered and neither invoked nor reset away).
C2_WaitUntilFiresOnce ==
    /\ ~hist.cBad
    /\ \A p \in Pairs : hist.bal[p] = Count(conditional_events, p)
    /\ hist.op = "update" =>
          \A p \in Pairs :
              /\ hist.nEval[p] = Count(hist.snap, p)
              /\ hist.nRun[p] = hist.nTrue[p]

\* C2 witness: one update() evaluated two registered pairs, left the one whose
\* predicate was false registered and invoked and discarded the other.
C2_Witness ==
    /\ hist.op = "update"
    /\ \E p, q \in Pairs :
          /\ p # q
          /\ hist.nRun[p] = 1 /\ Count(conditional_events, p) = 0
          /\ hist.nEval[q] = 1 /\ hist.nTrue[q] = 0
          /\ Count(conditional_events, q) = 1

\* C3: when several untriggered scheduled events are due in one update(), all
\* of them are invoked in that call, in the order of their registration.
C3_DueEventsAllInOrder ==
    hist.op = "update" =>
        /\ hist.due \subseteq Range(hist.order)
        /\ \A a, b \in DOMAIN hist.order :
              a < b => hist.order[a] < hist.order[b]

\* C3 witness: an update() that began with two due events of different
\* delays and invoked both.
C3_Witness ==
    /\ hist.op = "update"
    /\ \E i, j \in hist.due :
          /\ i < j
          /\ events[i].time # events[j].time
          /\ {i, j} \subseteq Range(hist.order)

\* C4: right after reset() the handler equals a freshly constructed one: no
\* scheduled events, no conditional events, all_waves_scheduled() false and
\* start_time the current clock value.
C4_ResetIsFresh ==
    hist.op = "reset" =>
        /\ events = StageNew(clock).events
        /\ conditional_events = StageNew(clock).conditional_events
        /\ start_time = StageNew(clock).start_time
        /\ all_waves_scheduled = StageNew(clock).waves_done

(***************************************************************************)
(* Pattern and CompoundPattern (src/pattern.py)                            *)
(***************************************************************************)
\* A Bullet, Missile or Laser a pattern created: whether it is still in its
\* sprite groups, and the heading it was created with.
Proj(a) == [on |-> TRUE, angle |-> a]

\* Pattern.__init__ and the subclass constructors. kind names the subclass:
\* "circle" (CirclePattern), "spiral" (SpiralPattern), "snowflake"
\* (SnowflakePattern), "burst" (BurstPattern, MissileBurstPattern), "laser"
\* (MultiLaserPattern), "rotating" (RotatingLaserPattern), "single"
\* (SingleLaserPattern), "fanlaser" (FanLaserPattern), "fan"
\* (FanPattern, whose definition also carries its angles list), "singleshot"
\* (SinglePattern). n is
\* bullets_per_shot; step is spread_angle, spin_speed or spread; intra is
\* intra_delay; angle is _current_angle, _offset, _rotation_offset or the
\* single laser's angle; last is _last_burst_bullet_time; aim is the
\* heading from the owner to the player, measured from straight down, which
\* an aimed pattern reads; zero says that the player's centre is the owner's
\* centre, so that there is no such heading; aim_speed is the
\* FanLaserPattern's. raised says that an update() ended in an exception.
\* lost counts the projectiles that left the list while still in a group.
PatternNew(d) ==
    [ kind |-> d.kind, n |-> d.n, delay |-> d.delay, step |-> d.step,
      intra |-> d.intra,
      active |-> TRUE, previous_fire_time |-> 0, projectiles |-> <<>>,
      angle |-> 0, queue |-> <<>>, bursting |-> FALSE, last |-> 0,
      spawned |-> FALSE, lost |-> 0,
      angles |-> IF "angles" \in DOMAIN d THEN d.angles ELSE <<>>,
      aimed |-> IF "aimed" \in DOMAIN d THEN d.aimed ELSE FALSE,
      aim |-> 0, zero |-> FALSE,
      aim_speed |-> IF "aim_speed" \in DOMAIN d THEN d.aim_speed ELSE 0,
      raised |-> FALSE ]

\* Mutant: the cadence check always passes.
CheckFireAlways(p, now) == TRUE

\* Pattern._check_fire
CheckFire(p, now) == now - p.previous_fire_time >= p.delay

\* sum(self.angles)
RECURSIVE Sum(_)
Sum(s) == IF s = <<>> THEN 0 ELSE Head(s) + Sum(Tail(s))

\* The subclasses whose _fire calls normalize() on the vector to the player
\* without looking at its length.
NormalizeKinds == {"circle", "spiral", "snowflake", "singleshot"}

\* The aim block at the head of _fire: Vector2.normalize() of a zero-length
\* vector raises ValueError.
AimRaises(p) == p.aimed /\ p.zero /\ p.kind \in NormalizeKinds

\* base_angle of FanPattern._fire and of _prepare_burst: 0 when not aimed;
\* the heading to the player; with the player on the owner, atan2(0, 0) - 90
\* in FanPattern and 0 in the burst patterns.
BaseAngle(p) ==
    IF ~p.aimed THEN 0
    ELSE IF p.zero THEN (IF p.kind = "fan" THEN -90 ELSE 0)
    ELSE p.aim

\* Mutant: the FanPattern angles are not centred on their mean.
ShotAnglesUncentred(p) ==
    [i \in 1..p.n |->
        CASE p.kind = "spiral"    -> (p.angle + (i - 1) * p.step) % 360
          [] p.kind = "snowflake" -> p.angle + (360 \div p.n) * (i - 1)
          [] p.kind = "fan"       ->
                 p.n * (BaseAngle(p) + p.angles[i])
          [] p.kind = "singleshot" -> 0
          [] OTHER                -> (360 \div p.n) * (i - 1)]

\* The headings of one shot, relative to the pattern's UNIT_Y_DOWN:
\* CirclePattern 360 / n * i, SnowflakePattern _offset + 360 / n * i,
\* SpiralPattern the running _current_angle, SinglePattern 0. FanPattern:
\* base_angle + angle - sum(angles) / len(angles); the mean being a
\* fraction, a FanPattern heading is held multiplied by n = len(angles).
ShotAngles(p) ==
    [i \in 1..p.n |->
        CASE p.kind = "spiral"    -> (p.angle + (i - 1) * p.step) % 360
          [] p.kind = "snowflake" -> p.angle + (360 \div p.n) * (i - 1)
          [] p.kind = "fan"       ->
                 p.n * (BaseAngle(p) + p.angles[i]) - Sum(p.angles)
          [] p.kind = "singleshot" -> 0
          [] OTHER                -> (360 \div p.n) * (i - 1)]

\* Mutant: a shot leaves the SnowflakePattern offset where it was.
FireNoSpin(p, now) ==
    [p EXCEPT !.projectiles = @ \o [i \in 1..p.n |-> Proj(ShotAngles(p)[i])],
              !.angle = CASE p.kind = "spiral"    -> (@ + p.n * p.step) % 360
                          [] OTHER                -> @,
              !.previous_fire_time = now]

\* Mutant: the SpiralPattern accumulator is not reduced modulo 360.
FireNoWrap(p, now) ==
    [p EXCEPT !.projectiles = @ \o [i \in 1..p.n |-> Proj(ShotAngles(p)[i])],
              !.angle = CASE p.kind = "spiral"    -> @ + p.n * p.step
                          [] p.kind = "snowflake" -> (@ + p.step) % 360
                          [] OTHER                -> @,
              !.previous_fire_time = now]

\* _fire of the cadence patterns: the aim block raises, or n bullets are
\* appended, the accumulator moved, previous_fire_time stamped.
Fire(p, now) ==
    IF AimRaises(p) THEN [p EXCEPT !.raised = TRUE] ELSE
    [p EXCEPT !.projectiles = @ \o [i \in 1..p.n |-> Proj(ShotAngles(p)[i])],
              !.angle = CASE p.kind = "spiral"    -> (@ + p.n * p.step) % 360
                          [] p.kind = "snowflake" -> (@ + p.step) % 360
                          [] OTHER                -> @,
              !.previous_fire_time = now]

\* BurstPattern._prepare_burst: start_angle + i * step
PrepareBurst(p) ==
    LET st == IF p.n > 1 THEN p.step \div (p.n - 1) ELSE 0
    IN  [p EXCEPT !.queue = [i \in 1..p.n |->
                                (BaseAngle(p) - p.step \div 2)
                                    + (i - 1) * st]]

\* BurstPattern._fire_next_burst_bullet
FireNextBurstBullet(p, now) ==
    IF p.queue = <<>>
    THEN [p EXCEPT !.bursting = FALSE, !.previous_fire_time = now]
    ELSE [p EXCEPT !.projectiles = Append(@, Proj(Head(p.queue))),
                   !.queue = Tail(@)]

\* Mutant: the burst is prepared whenever the cadence check passes, also
\* while one is in progress.
BurstUpdateReenter(p, now) ==
    LET p1 == IF CheckFire(p, now)
              THEN [PrepareBurst(p) EXCEPT !.bursting = TRUE,
                                           !.last = now - p.intra]
              ELSE p
    IN  IF p1.bursting /\ now - p1.last >= p1.intra
        THEN [FireNextBurstBullet(p1, now) EXCEPT !.last = now]
        ELSE p1

\* BurstPattern.update / MissileBurstPattern.update below the active guard
BurstUpdate(p, now) ==
    LET p1 == IF ~p.bursting /\ CheckFire(p, now)
              THEN [PrepareBurst(p) EXCEPT !.bursting = TRUE,
                                           !.last = now - p.intra]
              ELSE p
    IN  IF p1.bursting /\ now - p1.last >= p1.intra
        THEN [FireNextBurstBullet(p1, now) EXCEPT !.last = now]
        ELSE p1

\* The subclasses that create Laser entities.
LaserKinds == {"laser", "rotating", "single", "fanlaser"}

\* _fire of the laser patterns: bullets_per_shot lasers appended, at the
\* listed or evenly spaced angles (Multi, Rotating), at the pattern's angle
\* (Single), or with relative angle 0 and _offset set to the heading of the
\* player from Vector2(0, -1), 0 with the player on the owner (Fan).
LaserFire(p) ==
    [p EXCEPT !.projectiles =
                  @ \o [i \in 1..p.n |->
                           Proj(CASE p.kind = "single" -> p.angle
                                  [] p.kind = "fanlaser" -> 0
                                  [] OTHER -> (360 \div p.n) * (i - 1))],
              !.angle = IF p.kind # "fanlaser" THEN @
                        ELSE IF p.zero THEN 0 ELSE p.aim + 180]

\* Mutant: the turn toward the player is not clamped to aim_speed.
FanSteerUnclamped(p) ==
    LET delta == (((p.aim + 180) - p.angle + 180) % 360) - 180
    IN  (p.angle + delta) % 360

\* FanLaserPattern.update, the aimed branch: the new _offset, turned toward
\* the heading of the player by at most aim_speed.
FanSteer(p) ==
    LET delta == (((p.aim + 180) - p.angle + 180) % 360) - 180
        m     == Min(p.aim_speed, delta)
        turn  == IF 0 - p.aim_speed > m THEN 0 - p.aim_speed ELSE m
    IN  (p.angle + turn) % 360

\* `self.owner.alive` as the laser pattern and the formation read it: the
\* bound method pygame.sprite.Sprite.alive, not a call, so always truthy.
OwnerAliveAttr == TRUE

\* Mutant: the lasers are created in every update().
LaserUpdateRespawn(p) ==
    LaserFire([p EXCEPT !.angle = IF p.kind = "fanlaser" THEN 0
                                  ELSE (@ + p.step) % 360,
                        !.spawned = TRUE])

\* update() of the laser patterns below the active guard: the offset turns
\* (a Fan that is not aimed resets it, one that is aimed steers it and
\* raises in normalize() with the player on the owner), the lasers are
\* created once; in MultiLaserPattern the `not self.owner.alive` branch is
\* never taken; the rest repositions the lasers.
LaserUpdate(p) ==
    LET p1 == [p EXCEPT !.angle = IF p.kind # "fanlaser"
                                  THEN (@ + p.step) % 360
                                  ELSE IF p.aimed THEN FanSteer(p) ELSE 0]
        p2 == IF ~p1.spawned THEN [LaserFire(p1) EXCEPT !.spawned = TRUE]
              ELSE p1
    IN  IF p.kind = "fanlaser" /\ p.aimed /\ p.zero
        THEN [p EXCEPT !.raised = TRUE]
        ELSE IF p.kind = "laser" /\ ~OwnerAliveAttr
        THEN [p2 EXCEPT !.projectiles =
                            [i \in DOMAIN @ |-> [@[i] EXCEPT !.on = FALSE]]]
        ELSE p2

\* update() of each subclass below its `if not self.active: return`
UpdateBody(p, now) ==
    CASE p.kind = "burst" -> BurstUpdate(p, now)
      [] p.kind \in LaserKinds -> LaserUpdate(p)
      [] OTHER            -> IF CheckFire(p, now) THEN Fire(p, now) ELSE p

\* Mutant: update() without the active guard.
PatternUpdateUnguarded(p, now) == UpdateBody(p, now)

\* update() of a Pattern subclass
PatternUpdate(p, now) == IF ~p.active THEN p ELSE UpdateBody(p, now)

\* Pattern.kill_projectiles: kill() each listed projectile, clear the list.
\* The active flag is not assigned.
KillProjectiles(p) ==
    LET dead == [i \in DOMAIN p.projectiles |->
                    [p.projectiles[i] EXCEPT !.on = FALSE]]
    IN  [p EXCEPT !.projectiles = <<>>,
                  !.lost = @ + Cardinality({i \in DOMAIN dead : dead[i].on})]

\* A pattern object as a phase or formation holds it: a Pattern (compound
\* FALSE, subs its one element) or a CompoundPattern with its own active
\* flag and its patterns list.
TopNew(compound, defs) ==
    [ compound |-> compound, active |-> TRUE,
      subs |-> [i \in DOMAIN defs |-> PatternNew(defs[i])] ]

\* CompoundPattern.update
CompoundUpdate(t, now) ==
    IF ~t.active THEN t
    ELSE [t EXCEPT !.subs = [i \in DOMAIN @ |-> PatternUpdate(@[i], now)]]

\* pattern.update() on either class
TopUpdate(t, now) ==
    IF t.compound THEN CompoundUpdate(t, now)
    ELSE [t EXCEPT !.subs[1] = PatternUpdate(@, now)]

\* CompoundPattern.kill_projectiles: each contained pattern is deactivated
\* and cleared; the compound's own flag is not assigned.
CompoundKill(t) ==
    [t EXCEPT !.subs = [i \in DOMAIN @ |->
                           KillProjectiles([@[i] EXCEPT !.active = FALSE])]]

\* pattern.kill_projectiles() on either class
TopKill(t) ==
    IF t.compound THEN CompoundKill(t)
    ELSE [t EXCEPT !.subs[1] = KillProjectiles(@)]

\* pattern.active = True on either class
TopActivate(t) ==
    IF t.compound THEN [t EXCEPT !.active = TRUE]
    ELSE [t EXCEPT !.subs[1].active = TRUE]

\* pattern.active = False on either class
TopDeactivate(t) ==
    IF t.compound THEN [t EXCEPT !.active = FALSE]
    ELSE [t EXCEPT !.subs[1].active = FALSE]

\* The object's own active flag.
TopActive(t) == IF t.compound THEN t.active ELSE t.subs[1].active

\* Projectiles of the object that are in a sprite group.
TopLive(t) ==
    \E i \in DOMAIN t.subs :
        \/ t.subs[i].lost > 0
        \/ \E j \in DOMAIN t.subs[i].projectiles : t.subs[i].projectiles[j].on

\* Length of the object's projectile lists together.
RECURSIVE Listed(_)
Listed(subs) ==
    IF subs = <<>> THEN 0
    ELSE Len(Head(subs).projectiles) + Listed(Tail(subs))

(***************************************************************************)
(* A pattern on its own: its owner calls update(), kill_projectiles() and  *)
(* sets active; its projectiles leave their groups; the clock advances.    *)
(***************************************************************************)
PatDelays == {0, 1, 2}

PatternDefs ==
    [kind : {"circle"}, n : {1, 2}, delay : PatDelays, step : {0},
     intra : {0}]
    \cup [kind : {"spiral", "snowflake"}, n : {2}, delay : {0, 1},
          step : {90}, intra : {0}]
    \cup [kind : {"burst"}, n : {2}, delay : {0, 1}, step : {180},
          intra : {0, 1}]
    \cup [kind : {"burst"}, n : {1}, delay : {1}, step : {0}, intra : {1}]
    \cup [kind : {"laser"}, n : {1}, delay : {0}, step : {0, 180},
          intra : {0}]
    \cup [kind : {"rotating", "fanlaser"}, n : {2}, delay : {0}, step : {90},
          intra : {0}]
    \cup [kind : {"single"}, n : {1}, delay : {0}, step : {90}, intra : {0}]

\* The pattern objects studied: every single pattern, and two compounds.
Tops ==
    {TopNew(FALSE, <<d>>) : d \in PatternDefs}
    \cup { TopNew(TRUE, << [kind |-> "circle", n |-> 1, delay |-> 1,
                            step |-> 0, intra |-> 0],
                           [kind |-> "laser", n |-> 1, delay |-> 0,
                            step |-> 0, intra |-> 0] >>),
           TopNew(TRUE, << [kind |-> "burst", n |-> 2, delay |-> 1,
                            step |-> 180, intra |-> 0] >>) }

\* What an observer has seen of one pattern's firing actions: when the last
\* one ended, how many there were (up to 2), and whether one began less than
\* delay after the previous one ended.
FireInit == [end |-> -1, n |-> 0, tight |-> FALSE]

\* What an observer has seen of a pattern's first updates: the time of the
\* first, the headings it emitted, whether an update before first + delay
\* emitted, and the headings of the first update at or after first + delay
\* (<<-1>> until then).
FirstInit == [t |-> -1, shot |-> <<>>, early |-> FALSE, second |-> <<-1>>]

\* Headings of the projectiles an update() appended.
Emitted(p, p2) ==
    [i \in 1..(Len(p2.projectiles) - Len(p.projectiles)) |->
        p2.projectiles[Len(p.projectiles) + i].angle]

NoteFire(f, p, p2, now) ==
    LET started == IF p.kind = "burst" THEN ~p.bursting /\ p2.bursting
                   ELSE p.kind \notin LaserKinds /\ Emitted(p, p2) # <<>>
        ended   == IF p.kind = "burst" THEN p.bursting /\ ~p2.bursting
                   ELSE started
    IN  [f EXCEPT !.tight = @ \/ (started /\ f.end # -1
                                    /\ now - f.end < p.delay),
                  !.n = IF started THEN Min(@ + 1, 2) ELSE @,
                  !.end = IF ended THEN now ELSE @]

\* What an observer has seen of the bursts of one BurstPattern or
\* MissileBurstPattern: the projectiles released in the current burst (up to
\* 3), the time of the last release, and whether: two releases were less
\* than intra_delay apart; one update() released more than one; the queue
\* of a burst in progress was replaced; a burst ended having released a
\* number other than bullets_per_shot; a projectile was released outside a
\* burst.
BurstInit ==
    [ released |-> 0, lastRel |-> -1, tightRel |-> FALSE, multi |-> FALSE,
      requeue |-> FALSE, short |-> FALSE, stray |-> FALSE ]

NoteBurst(b, p, p2, now) ==
    LET k       == Len(Emitted(p, p2))
        started == ~p.bursting /\ p2.bursting
        ended   == p.bursting /\ ~p2.bursting
        count   == IF started THEN k ELSE Min(b.released + k, 3)
    IN  IF p.kind # "burst" THEN b
        ELSE [b EXCEPT
                !.released = count,
                !.lastRel = IF k > 0 THEN now ELSE @,
                !.tightRel = @ \/ (k > 0 /\ b.lastRel # -1
                                     /\ now - b.lastRel < p.intra),
                !.multi = @ \/ k > 1,
                !.requeue = @ \/ ( /\ p.bursting
                                   /\ p2.queue # p.queue
                                   /\ \/ p.queue = <<>>
                                      \/ p2.queue # Tail(p.queue) ),
                !.short = @ \/ (ended /\ count # p.n),
                !.stray = @ \/ (k > 0 /\ ~p.bursting /\ ~started)]

\* What an observer has seen of one laser pattern: the Laser entities it
\* created (up to 4), the updates that created any (up to 2), and whether
\* update() has been called on it while it was active.
BeamsInit == [made |-> 0, times |-> 0, ran |-> FALSE]

NoteBeams(b, p, p2) ==
    LET k == Len(Emitted(p, p2))
    IN  IF p.kind \notin LaserKinds THEN b
        ELSE [b EXCEPT !.made = Min(@ + k, 4),
                       !.times = IF k > 0 THEN Min(@ + 1, 2) ELSE @,
                       !.ran = @ \/ p.active]

NoteFirst(h, p, p2, now) ==
    IF ~p.active THEN h
    ELSE IF h.t = -1 THEN [h EXCEPT !.t = now, !.shot = Emitted(p, p2)]
    ELSE IF h.second # <<-1>> THEN h
    ELSE IF now < h.t + p.delay
         THEN [h EXCEPT !.early = @ \/ Emitted(p, p2) # <<>>]
    ELSE [h EXCEPT !.second = Emitted(p, p2)]

\* The pattern is constructed at any clock value.
InitPattern ==
    /\ clock = 0
    /\ events = <<>>
    /\ conditional_events = <<>>
    /\ start_time = 0
    /\ waves_done = FALSE
    /\ flag = FALSE
    /\ hist = HistInit
    /\ world = NoBoss
    /\ frame = FrameInit
    /\ obs = ObsInit
    /\ form = NoFormation
    /\ game = NoGame
    /\ ent = NoEntity
    /\ \E t \in Tops, c \in 0..MaxClock :
          pat = [ now |-> c, top |-> t, op |-> "init", made |-> 0,
                  killed |-> FALSE,
                  fire |-> [i \in DOMAIN t.subs |-> FireInit],
                  first |-> FirstInit,
                  burst |-> [i \in DOMAIN t.subs |-> BurstInit],
                  beams |-> [i \in DOMAIN t.subs |-> BeamsInit] ]

restOfPattern == <<stageVars, bossVars, form, ent, game>>

\* pattern.update() at the current clock value
PatUpdate ==
    LET t2 == TopUpdate(pat.top, pat.now)
    IN  /\ \A i \in DOMAIN t2.subs : Len(t2.subs[i].projectiles) <= MaxProj
        /\ pat' = [pat EXCEPT
                     !.top = t2,
                     !.op = "update",
                     !.made = Listed(t2.subs) - Listed(pat.top.subs),
                     !.fire = [i \in DOMAIN @ |->
                                  NoteFire(@[i], pat.top.subs[i], t2.subs[i],
                                           pat.now)],
                     !.first = IF pat.top.compound THEN @
                               ELSE NoteFirst(@, pat.top.subs[1], t2.subs[1],
                                              pat.now),
                     !.burst = [i \in DOMAIN @ |->
                                   NoteBurst(@[i], pat.top.subs[i], t2.subs[i],
                                             pat.now)],
                     !.beams = [i \in DOMAIN @ |->
                                   IF pat.top.compound /\ ~pat.top.active
                                   THEN @[i]
                                   ELSE NoteBeams(@[i], pat.top.subs[i],
                                                  t2.subs[i])]]
        /\ UNCHANGED restOfPattern

\* pattern.kill_projectiles()
PatKillProjectiles ==
    /\ pat' = [pat EXCEPT !.top = TopKill(@), !.op = "kill_projectiles",
                          !.made = 0, !.killed = TRUE]
    /\ UNCHANGED restOfPattern

\* pattern.active = False, as Boss._next_phase assigns it
PatDeactivate ==
    /\ TopActive(pat.top)
    /\ pat' = [pat EXCEPT !.top = TopDeactivate(@), !.op = "other",
                          !.made = 0]
    /\ UNCHANGED restOfPattern

\* pattern.active = True: the flag is a public attribute.
PatActivate ==
    /\ ~TopActive(pat.top)
    /\ pat' = [pat EXCEPT !.top = TopActivate(@), !.op = "other",
                          !.made = 0]
    /\ UNCHANGED restOfPattern

\* One of the pattern's projectiles leaves its groups on its own (it hits
\* its target or leaves the screen: Bullet.check_collisions,
\* Bullet._constrain_movement).
PatProjectileGone ==
    \E i \in DOMAIN pat.top.subs :
        \E j \in DOMAIN pat.top.subs[i].projectiles :
            /\ pat.top.subs[i].projectiles[j].on
            /\ pat' = [pat EXCEPT !.top.subs[i].projectiles[j].on = FALSE,
                                  !.op = "other", !.made = 0]
            /\ UNCHANGED restOfPattern

\* pygame.time.get_ticks() advances between calls.
PatTick ==
    /\ pat.now < MaxClock
    /\ pat' = [pat EXCEPT !.now = @ + 1, !.op = "other", !.made = 0]
    /\ UNCHANGED restOfPattern

NextPattern ==
    \/ PatUpdate
    \/ PatKillProjectiles
    \/ PatDeactivate
    \/ PatActivate
    \/ PatProjectileGone
    \/ PatTick

SpecPattern == InitPattern /\ [][NextPattern]_vars

\* C38: at every point between operations every element of a pattern's
\* projectiles list is a live projectile, still a member of some group; a
\* projectile that died by collision or by leaving the playfield is no
\* longer in the list.
C38_ListedProjectilesLive ==
    \A i \in DOMAIN pat.top.subs :
        \A j \in DOMAIN pat.top.subs[i].projectiles :
            pat.top.subs[i].projectiles[j].on

(***************************************************************************)
(* Boss, BossPhase, and the Bomb and OffsetFiringSite a phase entry makes   *)
(***************************************************************************)
\* Bomb('screen_clear', self, 400, ...): the duration of a phase-entry bomb
BombDuration == 400

\* BossPhase.duration in ms; 0 stands for None (the phase is HP-driven).
Durations == {0, 300}

\* Milliseconds between two ticks of the main loop.
Dts == {200, 400}

\* Elapsed times are kept up to the first value past every duration.
AgeCap == (CHOOSE d \in Durations : \A e \in Durations : e <= d) + 1

\* BossPhase(name, pattern_defs, max_hp, duration); ndefs = len(pattern_defs),
\* one (factory, offset) binding as in the phases the stages build; factory
\* names what the binding's factory returns.
PhaseDefs ==
    [max_hp : 1..MaxHp, duration : Durations, ndefs : {1}, factory : {"laser"}]

PhaseLists == UNION {[1..n -> PhaseDefs] : n \in 1..MaxPhases}

\* A Bomb owned by the boss: time since _fire_time, and whether this tick's
\* global_sprites.update() still has to call its update().
NewBomb == [age |-> 0, pend |-> FALSE]

\* Bomb('screen_clear', self, 400, player_bullets, targets=bullets)
SpawnBomb(w) == [w EXCEPT !.bombs = Append(@, NewBomb)]

\* OffsetFiringSite(boss, offset, 0, global_sprites): Entity.__init__ assigns
\* self.health = -1, which the health setter writes to the parent.
SiteInit(w) == [w EXCEPT !.health = -1]

\* The pattern a boss factory builds on its site: a laser pattern (as
\* boss_vertical builds) or a CompoundPattern holding one (as boss_cage
\* builds, next to a bullet pattern).
LaserDef == [kind |-> "laser", n |-> 1, delay |-> 0, step |-> 0, intra |-> 0]

BossFactory(f) == TopNew(f = "compound", <<LaserDef>>)

\* BossPhase.start(boss) of phase k: the clock and HP are reset, the pattern
\* list is replaced, and every binding gets a new OffsetFiringSite in
\* global_sprites and a new pattern.
PhaseStart(w, k) ==
    LET n  == w.phases[k].ndefs
        w1 == [w EXCEPT !.age = 0, !.hp[k] = w.phases[k].max_hp]
        w2 == [w1 EXCEPT
                 !.sites[k] = @ \o [i \in 1..n |-> TRUE],
                 !.pats[k] = [i \in 1..n |-> BossFactory(w.phases[k].factory)]]
    IN  IF n > 0 THEN SiteInit(w2) ELSE w2

\* Mutant: _start_phase without self.health = self.current_phase.max_hp.
StartPhaseNoHealth(w) ==
    LET w1 == [SpawnBomb(w) EXCEPT !.scroll = 0, !.cp = w.idx + 1]
    IN  PhaseStart(w1, w1.cp)

\* Boss._start_phase
StartPhase(w) ==
    LET w1 == [SpawnBomb(w) EXCEPT !.scroll = 0, !.cp = w.idx + 1]
        w2 == PhaseStart(w1, w1.cp)
    IN  [w2 EXCEPT !.health = w2.phases[w2.cp].max_hp]

\* Boss._next_phase lines 161-163: every pattern of current_phase is
\* deactivated and its projectiles are killed.
RetirePatterns(w) ==
    [w EXCEPT !.pats[w.cp] =
                  [i \in DOMAIN @ |-> TopKill(TopDeactivate(@[i]))]]

\* Mutant: _next_phase without `pattern.active = False`.
NextPhaseKeepActive(w) ==
    LET w0 == SpawnBomb([w EXCEPT !.transitioning = TRUE, !.idx = @ + 1])
        w1 == [w0 EXCEPT !.pats[w.cp] = [i \in DOMAIN @ |-> TopKill(@[i])]]
    IN  IF w1.idx >= Len(w1.phases)
        THEN [w1 EXCEPT !.alive = FALSE, !.scroll = ORIGINAL_SCROLL_SPEED]
        ELSE [StartPhase(w1) EXCEPT !.transitioning = FALSE]

\* Mutant: _next_phase whose death branch leaves the scroll speed alone.
NextPhaseNoRestore(w) ==
    LET w1 == RetirePatterns(
                  SpawnBomb([w EXCEPT !.transitioning = TRUE, !.idx = @ + 1]))
    IN  IF w1.idx >= Len(w1.phases)
        THEN [w1 EXCEPT !.alive = FALSE]
        ELSE [StartPhase(w1) EXCEPT !.transitioning = FALSE]

\* Boss._next_phase: flag, index, screen-clear bomb, the outgoing patterns
\* retired, then either the death branch (kill(), scroll speed restored,
\* return with the flag still set) or _start_phase() and the flag cleared.
\* The OffsetFiringSites of the outgoing phase are not touched.
NextPhase(w) ==
    LET w1 == RetirePatterns(
                  SpawnBomb([w EXCEPT !.transitioning = TRUE, !.idx = @ + 1]))
    IN  IF w1.idx >= Len(w1.phases)
        THEN [w1 EXCEPT !.alive = FALSE, !.scroll = ORIGINAL_SCROLL_SPEED]
        ELSE [StartPhase(w1) EXCEPT !.transitioning = FALSE]

\* Mutant: take_damage() subtracts the hit twice.
TakeDamageTwice(w) ==
    IF w.bomb_immunity THEN w
    ELSE LET w1 == [w EXCEPT !.hp[w.cp] = @ - 2]
             w2 == [w1 EXCEPT !.health = w1.hp[w1.cp]]
         IN  IF w2.hp[w2.cp] <= 0 /\ ~w2.transitioning
             THEN NextPhase(w2) ELSE w2

\* Boss.take_damage
TakeDamage(w) ==
    IF w.bomb_immunity THEN w
    ELSE LET w1 == [w EXCEPT !.hp[w.cp] = @ - 1]
             w2 == [w1 EXCEPT !.health = w1.hp[w1.cp]]
         IN  IF w2.hp[w2.cp] <= 0 /\ ~w2.transitioning
             THEN NextPhase(w2) ELSE w2

\* Entity._check_death, reached through Boss.update -> super().update()
CheckDeath(w) == IF w.health <= 0 THEN [w EXCEPT !.alive = FALSE] ELSE w

\* Boss.update lines 134-135: update() of every pattern of current_phase.
\* The laser patterns built here do not read the clock.
UpdatePatterns(w) ==
    [w EXCEPT !.pats[w.cp] = [i \in DOMAIN @ |-> TopUpdate(@[i], 0)]]

\* Boss.update: inactive -> return; the patterns of current_phase are
\* updated; the duration check calls _next_phase() whatever
\* _phase_transitioning and the index are; then Entity.update(), whose
\* _constrain_movement and check_collisions are no-ops for a Boss.
Update(w) ==
    IF ~w.active THEN w
    ELSE LET d  == w.phases[w.cp].duration
             w0 == UpdatePatterns(w)
             w1 == IF d # 0 /\ w0.age > d THEN NextPhase(w0) ELSE w0
         IN  CheckDeath(w1)

\* Dropping element k of a sequence (sprite.kill() on the k-th bomb)
Without(s, k) == [i \in 1..(Len(s) - 1) |-> IF i < k THEN s[i] ELSE s[i + 1]]

\* Mutant: a bomb that reaches its duration dies without clearing the
\* owner's immunity.
BombUpdateKeepImmune(w, k) ==
    LET w1 == [w EXCEPT !.bomb_immunity = TRUE]
    IN  IF w1.bombs[k].age >= BombDuration
        THEN [w1 EXCEPT !.bombs = Without(@, k)]
        ELSE [w1 EXCEPT !.bombs[k].pend = FALSE]

\* Bomb.update of the boss's k-th bomb: _update_position sets the owner
\* immune, _check_death kills the bomb at its duration and clears immunity.
BombUpdate(w, k) ==
    LET w1 == [w EXCEPT !.bomb_immunity = TRUE]
    IN  IF w1.bombs[k].age >= BombDuration
        THEN [w1 EXCEPT !.bombs = Without(@, k), !.bomb_immunity = FALSE]
        ELSE [w1 EXCEPT !.bombs[k].pend = FALSE]

\* Boss.__init__ with the given phases
BossNew(ph) ==
    StartPhase([ NoBoss EXCEPT !.phases = ph,
                               !.hp = [i \in DOMAIN ph |-> ph[i].max_hp],
                               !.pats = [i \in DOMAIN ph |-> <<>>],
                               !.sites = [i \in DOMAIN ph |-> <<>>],
                               !.health = ph[1].max_hp,
                               !.cp = 1, !.active = TRUE, !.alive = TRUE ])

\* Length of the projectile lists of a phase's patterns together.
RECURSIVE TopsListed(_)
TopsListed(ts) ==
    IF ts = <<>> THEN 0 ELSE Listed(Head(ts).subs) + TopsListed(Tail(ts))

\* The observer's record of a call that took the boss from w to w2.
Observe(w, w2, name) ==
    LET moved == w2.idx # w.idx
        dmg   == name = "take_damage" /\ ~w.bomb_immunity
        n     == IF dmg THEN obs.nhit + 1 ELSE obs.nhit
    IN  [ obs EXCEPT
            !.op = name,
            !.prevIdx = w.idx,
            !.nhit = IF moved THEN 0 ELSE n,
            !.adv = IF moved
                    THEN [k |-> w.cp, late |-> w.age > w.phases[w.cp].duration,
                          nhit |-> n, by |-> name]
                    ELSE @,
            !.immuneChange = @ \/ ( /\ name = "take_damage" /\ w.bomb_immunity
                                    /\ <<w2.hp, w2.health, w2.idx>>
                                         # <<w.hp, w.health, w.idx>> ),
            !.zeroDur = @ \/ ( /\ dmg
                               /\ w2.hp[w.cp] <= 0
                               /\ w.phases[w.cp].duration # 0
                               /\ w.age > w.phases[w.cp].duration ),
            !.upd = @ \/ name = "update",
            !.lateFire = @ \/ ( /\ name = "update" /\ w.active
                                /\ w.idx >= w.cp
                                /\ TopsListed(UpdatePatterns(w).pats[w.cp])
                                     > TopsListed(w.pats[w.cp]) ) ]

InitBoss ==
    /\ clock = 0
    /\ events = <<>>
    /\ conditional_events = <<>>
    /\ start_time = 0
    /\ waves_done = FALSE
    /\ flag = FALSE
    /\ hist = HistInit
    /\ \E ph \in PhaseLists : world = BossNew(ph)
    /\ frame = FrameInit
    /\ obs = ObsInit
    /\ PartsAtRest

\* A bullet's check_collisions finds the boss in its target group and calls
\* boss.take_damage().
BossTakeDamage ==
    /\ world.alive
    /\ frame.hits < MaxHits
    /\ world' = TakeDamage(world)
    /\ frame' = [frame EXCEPT !.hits = @ + 1]
    /\ obs' = Observe(world, world', "take_damage")
    /\ UNCHANGED <<stageVars, partVars>>

\* global_sprites.update() reaches the boss (in the group when the tick began).
BossUpdate ==
    /\ frame.bossPend
    /\ world' = Update(world)
    /\ frame' = [frame EXCEPT !.bossPend = FALSE]
    /\ obs' = Observe(world, world', "update")
    /\ UNCHANGED <<stageVars, partVars>>

\* global_sprites.update() reaches the next bomb of the boss.
BombStep ==
    \E k \in DOMAIN world.bombs :
        /\ world.bombs[k].pend
        /\ \A j \in 1..(k - 1) : ~world.bombs[j].pend
        /\ world' = BombUpdate(world, k)
        /\ obs' = Observe(world, world', "bomb")
        /\ UNCHANGED <<frame, stageVars, partVars>>

\* The state when the next tick begins dt ms later: every sprite in a group
\* is due one update().
Advance(w, dt) ==
    [w EXCEPT !.age = Min(@ + dt, AgeCap),
              !.bombs = [i \in DOMAIN @ |->
                           [age |-> Min(@[i].age + dt, BombDuration),
                            pend |-> TRUE]]]

TickDone == ~frame.bossPend /\ \A k \in DOMAIN world.bombs : ~world.bombs[k].pend

\* The main loop starts another tick.
NewTick ==
    /\ TickDone
    /\ \E dt \in Dts : world' = Advance(world, dt)
    /\ frame' = [bossPend |-> world.alive, hits |-> 0]
    /\ obs' = [obs EXCEPT !.op = "tick", !.prevIdx = world.idx,
                          !.tickIdx = world.idx, !.zeroDur = FALSE,
                          !.upd = FALSE]
    /\ UNCHANGED <<stageVars, partVars>>

\* A boss whose phases have max_hp 1 and whose factories build either kind
\* of pattern object.
PatPhaseDefs ==
    [max_hp : {1}, duration : Durations, ndefs : {1},
     factory : {"laser", "compound"}]

PatPhaseLists == UNION {[1..n -> PatPhaseDefs] : n \in 1..MaxPhases}

InitBossPat ==
    /\ clock = 0
    /\ events = <<>>
    /\ conditional_events = <<>>
    /\ start_time = 0
    /\ waves_done = FALSE
    /\ flag = FALSE
    /\ hist = HistInit
    /\ \E ph \in PatPhaseLists : world = BossNew(ph)
    /\ frame = FrameInit
    /\ obs = ObsInit
    /\ PartsAtRest

\* A laser of one of the boss's patterns leaves its groups on its own
\* (Laser.update kills it when its owner's health is not positive).
LaserGone ==
    \E k \in DOMAIN world.pats :
        \E i \in DOMAIN world.pats[k] :
            \E s \in DOMAIN world.pats[k][i].subs :
                \E j \in DOMAIN world.pats[k][i].subs[s].projectiles :
                    /\ world.pats[k][i].subs[s].projectiles[j].on
                    /\ world' = [world EXCEPT
                          !.pats[k][i].subs[s].projectiles[j].on = FALSE]
                    /\ obs' = [obs EXCEPT !.op = "gone",
                                          !.prevIdx = world.idx]
                    /\ UNCHANGED <<frame, stageVars, partVars>>

NextBoss ==
    \/ BossTakeDamage
    \/ BossUpdate
    \/ BombStep
    \/ NewTick

SpecBoss == InitBoss /\ [][NextBoss]_vars

NextBossPat ==
    \/ BossTakeDamage
    \/ BossUpdate
    \/ BombStep
    \/ NewTick
    \/ LaserGone

\* The boss with the lasers of its patterns dying on their own as well.
SpecBossPat == InitBossPat /\ [][NextBossPat]_vars

\* The main loop starts another tick after a tick in which the boss, while
\* alive, received at least one take_damage() call.
NewTickAfterHit ==
    /\ frame.hits >= 1 \/ ~world.alive
    /\ NewTick

NextBossLive ==
    \/ BossTakeDamage
    \/ BossUpdate
    \/ BombStep
    \/ NewTickAfterHit

\* Phases without pattern bindings (pattern_defs = []): the patterns have no
\* part in how a boss answers take_damage().
LivePhaseDefs ==
    [max_hp : 1..MaxHp, duration : Durations, ndefs : {0}, factory : {"laser"}]

LivePhaseLists == UNION {[1..n -> LivePhaseDefs] : n \in 1..MaxPhases}

InitBossLive ==
    /\ clock = 0
    /\ events = <<>>
    /\ conditional_events = <<>>
    /\ start_time = 0
    /\ waves_done = FALSE
    /\ flag = FALSE
    /\ hist = HistInit
    /\ \E ph \in LivePhaseLists : world = BossNew(ph)
    /\ frame = FrameInit
    /\ obs = ObsInit
    /\ PartsAtRest

\* The main loop keeps running: some sprite is updated or the next tick starts.
SpecBossLive ==
    InitBossLive /\ [][NextBossLive]_vars /\ WF_vars(NextBossLive)

(***************************************************************************)
(* Claims about Boss, checked under SpecBoss (C6 under SpecBossLive).      *)
(***************************************************************************)
NumPhases == Len(world.phases)

CurPhase == world.phases[world.cp]

\* C5: over any interleaving of Boss.update() and Boss.take_damage() calls
\* the phase index never decreases and never exceeds len(phases).
C5_PhaseIndexBounded ==
    /\ world.idx >= obs.prevIdx
    /\ world.idx <= NumPhases

\* C6: a boss whose phases all have max_hp >= 1 and that receives at least
\* one take_damage() call in every tick reaches phase index len(phases) and
\* is removed from its groups after finitely many ticks.
C6_BossEventuallyRemoved == <>(world.idx = NumPhases /\ ~world.alive)

\* C6 witness: a boss of at least two phases has been removed with its phase
\* index at len(phases), the last phase left by a take_damage() call.
C6_Witness ==
    /\ NumPhases >= 2
    /\ world.idx = NumPhases
    /\ ~world.alive
    /\ obs.adv.by = "take_damage"

\* C7: in an HP-driven phase with max_hp = H, every take_damage() call made
\* while not bomb-immune lowers current_hp by exactly 1 (so current_hp is H
\* minus the number of such calls since phase entry, and stays positive while
\* the phase lasts), a call made while bomb-immune changes neither current_hp,
\* health nor the phase index, and the phase is left by the H-th such call.
C7_HpPhaseDamage ==
    /\ ~obs.immuneChange
    /\ (world.idx < NumPhases /\ CurPhase.duration = 0) =>
          /\ world.hp[world.cp] = CurPhase.max_hp - obs.nhit
          /\ obs.nhit < CurPhase.max_hp
    /\ (obs.adv.k # 0 /\ world.phases[obs.adv.k].duration = 0) =>
          /\ obs.adv.by = "take_damage"
          /\ obs.adv.nhit = world.phases[obs.adv.k].max_hp

\* C7 witness: a take_damage() call has just ended an HP-driven phase with
\* max_hp >= 2, as the max_hp-th damaging call since that phase began.
C7_Witness ==
    /\ obs.op = "take_damage"
    /\ world.idx = obs.prevIdx + 1
    /\ obs.adv.k # 0
    /\ world.phases[obs.adv.k].duration = 0
    /\ world.phases[obs.adv.k].max_hp >= 2
    /\ obs.adv.nhit = world.phases[obs.adv.k].max_hp

\* C8: after construction and after every completed update() or
\* take_damage(), boss.health equals current_phase.current_hp, also right
\* after a phase entry in which new OffsetFiringSites wrote to boss.health.
C8_HealthMirrorsHp == world.health = world.hp[world.cp]

\* C8 witness: a call has just entered a further phase whose firing site was
\* constructed on the way.
C8_Witness ==
    /\ obs.op \in {"take_damage", "update"}
    /\ world.idx = obs.prevIdx + 1
    /\ world.idx < NumPhases
    /\ CurPhase.ndefs > 0
    /\ world.health = CurPhase.max_hp

\* C9: for a phase with both a duration and an HP budget the duration is
\* authoritative: the phase is left only once the elapsed time since its
\* start exceeds the duration, never because current_hp reached <= 0 earlier.
C9_DurationAuthoritative ==
    (obs.adv.k # 0 /\ world.phases[obs.adv.k].duration # 0) => obs.adv.late

\* C10: in a tick in which take_damage() takes the current phase's HP to 0
\* while that phase's duration has elapsed and in which update() runs, the
\* phase index advances by exactly one, whichever call runs first and however
\* many take_damage() calls the tick holds.
C10_OneAdvancePerTick ==
    (obs.zeroDur /\ obs.upd) => world.idx = obs.tickIdx + 1

(***************************************************************************)
(* Claims about Pattern and CompoundPattern, checked under SpecPattern.    *)
(***************************************************************************)
\* C14: for every Pattern type and for CompoundPattern, an update() call
\* made while active is false creates no projectile and changes no state of
\* the pattern (cadence timestamps, angle accumulators, burst queue, spawned
\* flag); the same holds for a pattern a CompoundPattern contains.
C14_InactiveUpdateNoOp ==
    [][ PatUpdate =>
          /\ \A i \in DOMAIN pat.top.subs :
                ( \/ ~pat.top.subs[i].active
                  \/ (pat.top.compound /\ ~pat.top.active) )
                    => pat'.top.subs[i] = pat.top.subs[i]
          /\ ~TopActive(pat.top) => (pat'.made = 0 /\ pat'.top = pat.top)
      ]_vars

\* C14 witness: update() has just been called on a burst pattern that was
\* deactivated in the middle of a burst.
C14_Witness ==
    /\ pat.op = "update"
    /\ \E i \in DOMAIN pat.top.subs :
          /\ ~pat.top.subs[i].active
          /\ pat.top.subs[i].bursting
          /\ pat.top.subs[i].queue # <<>>

\* C15: for every bullet pattern with delay D >= 0, a firing action (for a
\* burst pattern: the start of a burst) never comes less than D of clock
\* time after the previous firing action (the end of the previous burst),
\* over any sequence of update() calls at non-decreasing clock values.
C15_FiringGapAtLeastDelay ==
    \A i \in DOMAIN pat.fire : ~pat.fire[i].tight

\* C15 witness: a burst pattern with a positive delay has started its
\* second burst.
C15_Witness ==
    \E i \in DOMAIN pat.fire :
        /\ pat.top.subs[i].kind = "burst"
        /\ pat.top.subs[i].delay >= 1
        /\ pat.fire[i].n = 2

\* C16: a CirclePattern with N bullets per shot and delay D whose first
\* update() happens at clock time t0 emits N bullets at headings i*360/N on
\* that update, none on an update before t0 + D, and N bullets at the same
\* headings on the first update at or after t0 + D.
C16_CircleFirstShot ==
    LET p == pat.top.subs[1]
        shot == [i \in 1..p.n |-> (i - 1) * (360 \div p.n)]
    IN  (~pat.top.compound /\ p.kind = "circle" /\ pat.first.t # -1) =>
            /\ pat.first.shot = shot
            /\ ~pat.first.early
            /\ pat.first.second # <<-1>> => pat.first.second = shot

\* C17: after kill_projectiles() on a Pattern or CompoundPattern every
\* projectile it had spawned is out of all groups, its projectile list is
\* empty and its active flag is false, and no later update() on it creates
\* a projectile.
C17_KillProjectilesStops ==
    /\ pat.op = "kill_projectiles" =>
          /\ ~TopLive(pat.top)
          /\ Listed(pat.top.subs) = 0
          /\ ~TopActive(pat.top)
          /\ \A i \in DOMAIN pat.top.subs : ~pat.top.subs[i].active
    /\ (pat.killed /\ pat.op = "update") => pat.made = 0

(***************************************************************************)
(* Claims about the patterns, firing sites and scroll speed of a Boss,     *)
(* checked under SpecBossPat (C13 under SpecBoss).                         *)
(***************************************************************************)
\* The last call entered a phase (construction included).
Entered ==
    \/ obs.op = "init"
    \/ (world.idx > obs.prevIdx /\ world.idx < NumPhases)

\* C11: after every boss phase transition, the final one included, every
\* Pattern and CompoundPattern of a phase that was left is inactive, its
\* projectile list is empty, none of the projectiles it spawned is in a
\* group, and no later Boss.update() has made it create a projectile.
C11_OutgoingPatternsQuiet ==
    /\ \A k \in 1..Min(world.idx, NumPhases) :
          \A i \in DOMAIN world.pats[k] :
              LET t == world.pats[k][i]
              IN  /\ ~TopActive(t)
                  /\ \A s \in DOMAIN t.subs : ~t.subs[s].active
                  /\ Listed(t.subs) = 0
                  /\ ~TopLive(t)
    /\ ~obs.lateFire

\* C11 witness: the boss has left its last phase, whose CompoundPattern had
\* created its laser, and update() has run on the boss after that.
C11_Witness ==
    /\ NumPhases >= 2
    /\ world.idx >= NumPhases
    /\ obs.op = "update"
    /\ obs.prevIdx = world.idx
    /\ \E i \in DOMAIN world.pats[NumPhases] :
          /\ world.pats[NumPhases][i].compound
          /\ world.pats[NumPhases][i].subs[1].spawned

\* C12: right after the boss enters phase i (at construction and after each
\* transition) current_hp is phase i's max_hp, the phase's pattern list
\* holds exactly one newly built pattern per (factory, offset) binding, and
\* no firing site or projectile of a pattern created by an earlier phase
\* entry is in any group.
C12_PhaseEntryFresh ==
    Entered =>
        /\ world.hp[world.cp] = CurPhase.max_hp
        /\ world.pats[world.cp]
             = [i \in 1..CurPhase.ndefs |-> BossFactory(CurPhase.factory)]
        /\ \A k \in 1..(world.cp - 1) :
              /\ \A i \in DOMAIN world.sites[k] : ~world.sites[k][i]
              /\ \A i \in DOMAIN world.pats[k] : ~TopLive(world.pats[k][i])

\* C13: help.STAGE_SCROLL_SPEED is 0 after every boss phase entry and is
\* ORIGINAL_SCROLL_SPEED once the boss has been removed after exhausting its
\* last phase.
C13_ScrollHaltedAndRestored ==
    /\ Entered => world.scroll = 0
    /\ (world.idx > obs.prevIdx /\ world.idx >= NumPhases) =>
          (~world.alive /\ world.scroll = ORIGINAL_SCROLL_SPEED)

\* C13 witness: update() has just taken a boss of at least two phases out of
\* its last phase, and the scroll speed is back.
C13_Witness ==
    /\ NumPhases >= 2
    /\ obs.op = "update"
    /\ world.idx > obs.prevIdx
    /\ world.idx = NumPhases
    /\ ~world.alive
    /\ world.scroll = ORIGINAL_SCROLL_SPEED

(***************************************************************************)
(* Formation (src/formation.py)                                            *)
(***************************************************************************)
\* A firing-site entry: y0 is where the site's rect.top starts, measured
\* from the line CANVAS_HEIGHT + 300 past which a site is killed; def is
\* what its pattern factory builds.
SiteDefs ==
    [y0 : {-1, -3},
     def : { [kind |-> "circle", n |-> 1, delay |-> 0, step |-> 0,
              intra |-> 0],
             [kind |-> "laser", n |-> 1, delay |-> 0, step |-> 0,
              intra |-> 0] }]

\* The firing_sites argument: no, one or two entries.
SiteLists == UNION {[1..n -> SiteDefs] : n \in 0..2}

\* len(entries) of a PopcornFormation
EntryCounts == {0, 1, 2}

\* spawn_time
SpawnTimes == {0, 1}

\* Formation.__init__ / PopcornFormation.__init__, the formation added to
\* its groups; the last five fields are what an observer has seen: the
\* branch the last update() took, the number of spawn() calls (up to 2),
\* whether an update() ran before spawn_time, the sites that were dead when
\* the last update() began, and whether an update() made the pattern of a
\* site that was dead when it began create a projectile.
FormationNew(t, e, sd) ==
    [ now |-> 0, spawn_time |-> t, entries |-> e, site_defs |-> sd,
      spawned |-> FALSE, enemies |-> <<>>, firing_sites |-> <<>>,
      patterns |-> <<>>, in_group |-> TRUE,
      op |-> "init", spawns |-> 0, waited |-> FALSE, wasDead |-> {},
      deadFire |-> FALSE ]

\* 'laser' in pattern.bullet_type
IsLaser(p) == p.kind = "laser"

\* hasattr(p, 'alive') for a pattern object: Pattern and CompoundPattern
\* define no such attribute.
PatternHasAlive == FALSE

\* PopcornFormation.spawn: one enemy per entry, and per firing-site entry a
\* FiringSite in global_sprites with the pattern its factory builds.
FormationSpawn(f) ==
    [f EXCEPT
       !.enemies = @ \o [i \in 1..f.entries |-> TRUE],
       !.firing_sites = @ \o [i \in DOMAIN f.site_defs |->
                                 [y |-> f.site_defs[i].y0, alive |-> TRUE]],
       !.patterns = @ \o [i \in DOMAIN f.site_defs |->
                             [owner |-> Len(f.firing_sites) + i,
                              p |-> PatternNew(f.site_defs[i].def)]],
       !.spawns = Min(@ + 1, 2)]

\* Formation.update lines 143-150: every site moves down by the scroll speed
\* formation.py imported; a site past the line is killed and the laser
\* patterns it owns get kill_projectiles().
ScrollSites(f) ==
    LET moved == [i \in DOMAIN f.firing_sites |->
                     [y |-> f.firing_sites[i].y + ORIGINAL_SCROLL_SPEED,
                      alive |-> /\ f.firing_sites[i].alive
                                /\ f.firing_sites[i].y
                                     + ORIGINAL_SCROLL_SPEED <= 0]]
    IN  [f EXCEPT
           !.firing_sites = moved,
           !.patterns = [j \in DOMAIN @ |->
                            IF moved[@[j].owner].y > 0 /\ IsLaser(@[j].p)
                            THEN [@[j] EXCEPT !.p = KillProjectiles(@)]
                            ELSE @[j]]]

\* Formation.update lines 153-163: every pattern is updated; the test
\* `not pattern.owner.alive` reads the bound method and is never true, so
\* no pattern is cleared or removed.
UpdateFormationPatterns(f) ==
    LET upd == [j \in DOMAIN f.patterns |->
                   [f.patterns[j] EXCEPT !.p = PatternUpdate(@, f.now)]]
    IN  [f EXCEPT !.patterns = IF OwnerAliveAttr THEN upd ELSE <<>>]

\* Formation.update lines 166-171: with every site out of its groups (and
\* the pattern test, true of every pattern) the formation is killed and its
\* laser patterns get kill_projectiles().
KillCheck(f) ==
    IF /\ \A i \in DOMAIN f.firing_sites : ~f.firing_sites[i].alive
       /\ \A j \in DOMAIN f.patterns :
              ~PatternHasAlive \/ f.patterns[j].p.active
    THEN [f EXCEPT
            !.in_group = FALSE,
            !.patterns = [j \in DOMAIN @ |->
                             IF IsLaser(@[j].p)
                             THEN [@[j] EXCEPT !.p = KillProjectiles(@)]
                             ELSE @[j]]]
    ELSE f

\* Formation.update lines 141-171
FormationBody(f) == KillCheck(UpdateFormationPatterns(ScrollSites(f)))

\* Mutant: update() without the return after spawn().
FormationUpdateNoReturn(f) ==
    IF ~f.spawned /\ f.now >= f.spawn_time
    THEN FormationBody(FormationSpawn([f EXCEPT !.spawned = TRUE]))
    ELSE IF f.spawned THEN FormationBody(f) ELSE f

\* Formation.update
FormationUpdate(f) ==
    IF ~f.spawned /\ f.now >= f.spawn_time
    THEN FormationSpawn([f EXCEPT !.spawned = TRUE])
    ELSE IF f.spawned THEN FormationBody(f) ELSE f

InitFormation ==
    /\ clock = 0
    /\ events = <<>>
    /\ conditional_events = <<>>
    /\ start_time = 0
    /\ waves_done = FALSE
    /\ flag = FALSE
    /\ hist = HistInit
    /\ world = NoBoss
    /\ frame = FrameInit
    /\ obs = ObsInit
    /\ pat = NoPattern
    /\ ent = NoEntity
    /\ game = NoGame
    /\ \E t \in SpawnTimes, e \in EntryCounts, sd \in SiteLists :
          form = FormationNew(t, e, sd)

restOfFormation == <<stageVars, bossVars, pat, ent, game>>

\* formations.update() reaches the formation, which is in its groups.
FormUpdate ==
    LET f2 == FormationUpdate(form)
        g  == ScrollSites(form)
        h  == UpdateFormationPatterns(g)
    IN  /\ form.in_group
        /\ \A j \in DOMAIN f2.patterns :
              Len(f2.patterns[j].p.projectiles) <= MaxProj
        /\ form' = [f2 EXCEPT
                      !.op = IF f2.spawns > form.spawns THEN "update_spawn"
                             ELSE IF form.spawned THEN "update_body"
                             ELSE "update_wait",
                      !.waited = @ \/ form.now < form.spawn_time,
                      !.wasDead = IF form.spawned
                                  THEN {i \in DOMAIN form.firing_sites :
                                          ~form.firing_sites[i].alive}
                                  ELSE {},
                      !.deadFire = @ \/
                          ( /\ form.spawned
                            /\ \E j \in DOMAIN g.patterns :
                                  /\ ~form.firing_sites[g.patterns[j].owner].alive
                                  /\ Len(h.patterns[j].p.projectiles)
                                       > Len(g.patterns[j].p.projectiles) )]
        /\ UNCHANGED restOfFormation

\* One of the formation's enemies leaves its groups (shot, or off screen).
FormEnemyGone ==
    \E i \in DOMAIN form.enemies :
        /\ form.enemies[i]
        /\ \A k \in 1..(i - 1) : ~form.enemies[k]
        /\ form' = [form EXCEPT !.enemies[i] = FALSE, !.op = "other",
                                !.wasDead = {}]
        /\ UNCHANGED restOfFormation

\* pygame.time.get_ticks() advances between calls.
FormTick ==
    /\ form.now < MaxClock
    /\ form' = [form EXCEPT !.now = @ + 1, !.op = "other", !.wasDead = {}]
    /\ UNCHANGED restOfFormation

NextFormation ==
    \/ FormUpdate
    \/ FormEnemyGone
    \/ FormTick

SpecFormation == InitFormation /\ [][NextFormation]_vars

(***************************************************************************)
(* Claims about Formation, checked under SpecFormation.                    *)
(***************************************************************************)
\* C18: once the firing site that owns a formation's pattern has been
\* killed, the formation has removed that pattern from its pattern list by
\* the end of its next update(), no later Formation.update() makes it
\* create a projectile, and the projectiles of a laser pattern whose site
\* was dead are out of their groups after the update.
C18_DeadSitePatternRetired ==
    /\ form.op = "update_body" =>
          \A j \in DOMAIN form.patterns :
              form.patterns[j].owner \notin form.wasDead
    /\ ~form.deadFire
    /\ form.op = "update_body" =>
          \A j \in DOMAIN form.patterns :
              ( /\ form.patterns[j].owner \in form.wasDead
                /\ IsLaser(form.patterns[j].p) )
                  => \A k \in DOMAIN form.patterns[j].p.projectiles :
                         ~form.patterns[j].p.projectiles[k].on

\* C19: over any sequence of Formation.update() calls spawn() is never
\* invoked while the clock is below spawn_time, is invoked in the first
\* update() at or after spawn_time, and is invoked at most once; the
\* update() that spawns leaves the new sites where spawn() put them, updates
\* no pattern and keeps the formation in its groups.
C19_SpawnOnceWhenDue ==
    /\ [](form.spawns <= 1)
    /\ [][ FormUpdate =>
             /\ form.now < form.spawn_time => form'.spawns = form.spawns
             /\ (form.now >= form.spawn_time /\ form.spawns = 0)
                    => form'.spawns = 1
             /\ form'.spawns > form.spawns =>
                    /\ form'.in_group
                    /\ Len(form'.enemies) = form.entries
                    /\ \A i \in DOMAIN form'.enemies : form'.enemies[i]
                    /\ form'.firing_sites =
                          [i \in DOMAIN form.site_defs |->
                              [y |-> form.site_defs[i].y0, alive |-> TRUE]]
                    /\ \A j \in DOMAIN form'.patterns :
                          /\ form'.patterns[j].p.projectiles = <<>>
                          /\ ~form'.patterns[j].p.spawned
         ]_vars

\* C19 witness: the formation, updated before its spawn time, has just
\* spawned its enemies and two firing sites.
C19_Witness ==
    /\ form.op = "update_spawn"
    /\ form.waited
    /\ form.spawns = 1
    /\ Len(form.firing_sites) = 2
    /\ Len(form.enemies) >= 1

\* C20: for a spawned formation with E >= 0 enemies and no firing sites,
\* update() removes the formation from its groups if and only if all E of
\* its enemies have been removed from their groups; while any of its
\* enemies is still alive the formation stays in the formations group.
C20_RemovedIffEnemiesGone ==
    (form.spawned /\ form.site_defs = <<>>) =>
        /\ (\E i \in DOMAIN form.enemies : form.enemies[i]) => form.in_group
        /\ ( /\ form.op = "update_body"
             /\ \A i \in DOMAIN form.enemies : ~form.enemies[i] )
              => ~form.in_group

\* C21: a Formation removes itself only in a state where it has spawned,
\* every firing site it owns is dead, and none of the patterns it owns has
\* active = TRUE.
C21_RemovedOnlyWhenQuiet ==
    ~form.in_group =>
        /\ form.spawned
        /\ \A i \in DOMAIN form.firing_sites : ~form.firing_sites[i].alive
        /\ \A j \in DOMAIN form.patterns : ~form.patterns[j].p.active

(***************************************************************************)
(* Further claims about patterns, checked under SpecPattern.               *)
(***************************************************************************)
\* C22: for BurstPattern and MissileBurstPattern, while a burst is in
\* progress the angle queue is never recomputed and no second burst is
\* started; each burst releases exactly bullets_per_shot projectiles, at
\* most one per update(), consecutive releases at least intra_delay apart;
\* and the outer delay for the next burst is measured from the moment the
\* queue was found exhausted.
C22_BurstDiscipline ==
    \A i \in DOMAIN pat.top.subs :
        pat.top.subs[i].kind = "burst" =>
            LET p == pat.top.subs[i]
                b == pat.burst[i]
            IN  /\ ~b.requeue
                /\ ~b.short
                /\ ~b.stray
                /\ b.released <= p.n
                /\ p.bursting => b.released + Len(p.queue) = p.n
                /\ ~b.multi
                /\ ~b.tightRel
                /\ (~p.bursting /\ pat.fire[i].end # -1)
                      => p.previous_fire_time = pat.fire[i].end
                /\ ~pat.fire[i].tight

\* C22 witness: a burst of two with intra_delay 1 was released and found
\* exhausted, and the next burst has begun and released its first bullet.
C22_Witness ==
    /\ ~pat.top.compound
    /\ pat.top.subs[1].kind = "burst"
    /\ pat.top.subs[1].n = 2
    /\ pat.top.subs[1].intra = 1
    /\ pat.fire[1].n = 2
    /\ pat.fire[1].end # -1
    /\ pat.top.subs[1].bursting
    /\ pat.burst[1].released = 1

\* C23: for each laser pattern (Rotating, Single, Multi, Fan), over any
\* sequence of update(), kill_projectiles() and activation changes, Laser
\* entities are created in exactly one update() of the pattern's life (the
\* first one that finds it active), so the number of Laser entities it has
\* ever created equals its configured beam count.
C23_LasersSpawnOnce ==
    \A i \in DOMAIN pat.top.subs :
        pat.top.subs[i].kind \in LaserKinds =>
            LET b == pat.beams[i]
            IN  /\ b.times <= 1
                /\ b.ran => (b.times = 1 /\ b.made = pat.top.subs[i].n)
                /\ ~b.ran => (b.times = 0 /\ b.made = 0)

\* C23 witness: a laser pattern with two beams created them, had them
\* cleared by kill_projectiles(), and has been updated since, while active,
\* without creating another.
C23_Witness ==
    /\ ~pat.top.compound
    /\ pat.top.subs[1].kind \in {"rotating", "fanlaser"}
    /\ pat.beams[1].made = 2
    /\ pat.killed
    /\ pat.op = "update"
    /\ pat.top.subs[1].active
    /\ pat.top.subs[1].projectiles = <<>>

(***************************************************************************)
(* Bullet (src/bullet.py) and Entity.update (src/entity.py)                *)
(***************************************************************************)
\* A sprite of the bullet's targets group: whether it is the bullet's owner,
\* its bomb_immunity flag, and the take_damage() calls it has received from
\* the bullet (up to 2).
TargetDefs == [owner : BOOLEAN, immune : BOOLEAN, damage : {0}]

\* The targets group in its order: one or two sprites, at most one of them
\* the owner.
TargetLists ==
    {ts \in UNION {[1..n -> TargetDefs] : n \in 1..2} :
        Cardinality({i \in DOMAIN ts : ts[i].owner}) <= 1}

\* What pygame.sprite.spritecollide can return: the sprites of the group
\* that overlap the bullet, in group order.
HitLists(n) ==
    {<<>>} \cup {<<i>> : i \in 1..n}
           \cup {h \in (1..n) \X (1..n) : h[1] < h[2]}

\* Bullet.__init__, the bullet in its groups. due: the bullet is in the list
\* of sprites a running Group.update() has still to update. calls, hits and
\* total are what an observer has seen: the take_damage() calls of the last
\* update() (target and its immunity at the call), the sprites that update
\* collided with, and the take_damage() calls of the bullet's life (up to 2).
BulletNew(ts) ==
    [ op |-> "init", targets |-> ts, on |-> TRUE, due |-> FALSE,
      calls |-> <<>>, hits |-> <<>>, total |-> 0 ]

\* Bullet.check_collisions lines 62-64: take_damage() on the target, the
\* owner's score, self.kill().
HitTarget(e, i) ==
    [e EXCEPT !.targets[i].damage = Min(@ + 1, 2),
              !.calls = Append(@, [t |-> i, immune |-> e.targets[i].immune]),
              !.total = Min(@ + 1, 2),
              !.on = FALSE]

\* Mutant: the loop over the hits goes on after a hit.
RECURSIVE BulletCheckCollisionsNoBreak(_, _)
BulletCheckCollisionsNoBreak(e, hits) ==
    IF hits = <<>> THEN e
    ELSE IF ~e.targets[Head(hits)].owner /\ ~e.targets[Head(hits)].immune
         THEN BulletCheckCollisionsNoBreak(HitTarget(e, Head(hits)),
                                           Tail(hits))
         ELSE BulletCheckCollisionsNoBreak(e, Tail(hits))

\* Bullet.check_collisions: the first hit that is neither the owner nor
\* bomb-immune is damaged, the bullet is killed, the loop ends.
RECURSIVE BulletCheckCollisions(_, _)
BulletCheckCollisions(e, hits) ==
    IF hits = <<>> THEN e
    ELSE IF ~e.targets[Head(hits)].owner /\ ~e.targets[Head(hits)].immune
         THEN HitTarget(e, Head(hits))
         ELSE BulletCheckCollisions(e, Tail(hits))

\* Bullet._constrain_movement: off the canvas, the bullet is killed.
BulletConstrain(e, off) == IF off THEN [e EXCEPT !.on = FALSE] ELSE e

\* Entity.update for a Bullet: it moves (to a place off the canvas or not,
\* overlapping the sprites hits), _constrain_movement, check_collisions;
\* _check_death finds health 1.
BulletEntityUpdate(e, off, hits) ==
    BulletCheckCollisions(BulletConstrain(e, off), hits)

InitBullet ==
    /\ clock = 0
    /\ events = <<>>
    /\ conditional_events = <<>>
    /\ start_time = 0
    /\ waves_done = FALSE
    /\ flag = FALSE
    /\ hist = HistInit
    /\ world = NoBoss
    /\ frame = FrameInit
    /\ obs = ObsInit
    /\ pat = NoPattern
    /\ form = NoFormation
    /\ game = NoGame
    /\ \E ts \in TargetLists : ent = BulletNew(ts)

restOfEntity == <<stageVars, bossVars, pat, form, game>>

\* bullets.update() begins: Group.update() lists the sprites in the group.
BulletPass ==
    /\ ~ent.due
    /\ ent.on
    /\ ent' = [ent EXCEPT !.due = TRUE, !.op = "other", !.calls = <<>>,
                          !.hits = <<>>]
    /\ UNCHANGED restOfEntity

\* The running Group.update() reaches the bullet.
BulletUpdate ==
    \E off \in BOOLEAN, hits \in HitLists(Len(ent.targets)) :
        /\ ent.due
        /\ ent' = [BulletEntityUpdate([ent EXCEPT !.calls = <<>>], off, hits)
                      EXCEPT !.due = FALSE, !.op = "update", !.hits = hits]
        /\ UNCHANGED restOfEntity

\* The bullet is killed from outside (Pattern.kill_projectiles).
BulletKilled ==
    /\ ent.on
    /\ ent' = [ent EXCEPT !.on = FALSE, !.op = "other", !.calls = <<>>,
                          !.hits = <<>>]
    /\ UNCHANGED restOfEntity

\* A Bomb sets or clears the bomb_immunity of a sprite.
TargetImmunity ==
    \E i \in DOMAIN ent.targets :
        /\ ent' = [ent EXCEPT !.targets[i].immune = ~@, !.op = "other",
                              !.calls = <<>>, !.hits = <<>>]
        /\ UNCHANGED restOfEntity

NextBullet ==
    \/ BulletPass
    \/ BulletUpdate
    \/ BulletKilled
    \/ TargetImmunity

SpecBullet == InitBullet /\ [][NextBullet]_vars

(***************************************************************************)
(* Claims about Bullet, checked under SpecBullet.                          *)
(***************************************************************************)
\* C24: in one update() a Bullet calls take_damage() on at most one target,
\* never on its owner and never on a bomb-immune target, and the bullet is
\* out of all groups after that same update; over its whole life a Bullet
\* damages at most one target.
C24_BulletOneDamage ==
    /\ Len(ent.calls) <= 1
    /\ \A k \in DOMAIN ent.calls :
          /\ ~ent.targets[ent.calls[k].t].owner
          /\ ~ent.calls[k].immune
    /\ ent.calls # <<>> => ~ent.on
    /\ ent.total <= 1
    /\ Cardinality({i \in DOMAIN ent.targets : ent.targets[i].damage > 0}) <= 1

\* C24 witness: the bullet overlapped two sprites, the first its owner or
\* bomb-immune, and damaged the second.
C24_Witness ==
    /\ ent.op = "update"
    /\ ent.hits = <<1, 2>>
    /\ Len(ent.calls) = 1
    /\ ent.calls[1].t = 2
    /\ ent.targets[1].owner \/ ent.targets[1].immune

(***************************************************************************)
(* Bomb (src/bullet.py) as a sprite among the sprites it can touch         *)
(***************************************************************************)
\* Bomb.duration in clock units
BombDurations == {1, 2}

\* Bomb.__init__ at clock value now, with n sprites in its targets group
\* (enemy bullets: each in its groups, bomb_immunity False as
\* Entity.__init__ leaves it). The owner's flag is whatever it was. hits and
\* calls are what an observer has seen of the last update(): the sprites it
\* overlapped and the take_damage() calls it made.
BombEntityNew(now, d, n, imm) ==
    [ op |-> "init", now |-> now, fire_time |-> now, duration |-> d,
      on |-> TRUE, owner_immune |-> imm,
      targets |-> [i \in 1..n |-> [on |-> TRUE, immune |-> FALSE]],
      hits |-> {}, calls |-> 0 ]

\* Bomb._update_position: the image grows; the owner is made immune.
BombUpdatePosition(e) == [e EXCEPT !.owner_immune = TRUE]

\* Mutant: spritecollide with dokill=False.
BombCheckCollisionsNoKill(e, hits) ==
    [e EXCEPT !.calls = IF hits # {} THEN 1 ELSE 0]

\* Bomb.check_collisions: spritecollide(..., dokill=True) removes every
\* overlapped sprite of the targets group from all its groups; the first of
\* them (none is the owner) gets take_damage(), then the loop breaks.
BombCheckCollisions(e, hits) ==
    [e EXCEPT !.targets = [i \in DOMAIN @ |->
                              IF i \in hits THEN [@[i] EXCEPT !.on = FALSE]
                              ELSE @[i]],
              !.calls = IF hits # {} THEN 1 ELSE 0]

\* Bomb._check_death: at its duration the bomb is killed and the owner's
\* immunity cleared.
BombCheckDeath(e) ==
    IF e.now - e.fire_time >= e.duration
    THEN [e EXCEPT !.on = FALSE, !.owner_immune = FALSE]
    ELSE e

\* Bomb.update: _update_position, _constrain_movement (nothing),
\* check_collisions, _check_death.
BombEntityUpdate(e, hits) ==
    BombCheckDeath(BombCheckCollisions(BombUpdatePosition(e), hits))

InitBomb ==
    /\ clock = 0
    /\ events = <<>>
    /\ conditional_events = <<>>
    /\ start_time = 0
    /\ waves_done = FALSE
    /\ flag = FALSE
    /\ hist = HistInit
    /\ world = NoBoss
    /\ frame = FrameInit
    /\ obs = ObsInit
    /\ pat = NoPattern
    /\ form = NoFormation
    /\ game = NoGame
    /\ \E c \in 0..MaxClock, d \in BombDurations, n \in 1..2,
          imm \in BOOLEAN :
          ent = BombEntityNew(c, d, n, imm)

\* The group's update() reaches the bomb; it overlaps some of the sprites
\* that are in the targets group.
BombRun ==
    \E hits \in SUBSET {i \in DOMAIN ent.targets : ent.targets[i].on} :
        /\ ent.on
        /\ ent' = [BombEntityUpdate(ent, hits) EXCEPT !.op = "update",
                                                      !.hits = hits]
        /\ UNCHANGED restOfEntity

\* pygame.time.get_ticks() advances between calls.
BombClock ==
    /\ ent.now < MaxClock
    /\ ent' = [ent EXCEPT !.now = @ + 1, !.op = "other", !.hits = {},
                          !.calls = 0]
    /\ UNCHANGED restOfEntity

\* Another Bomb of the same owner sets or clears the owner's immunity.
BombOwnerOther ==
    /\ ent' = [ent EXCEPT !.owner_immune = ~@, !.op = "other", !.hits = {},
                          !.calls = 0]
    /\ UNCHANGED restOfEntity

NextBomb ==
    \/ BombRun
    \/ BombClock
    \/ BombOwnerOther

SpecBomb == InitBomb /\ [][NextBomb]_vars

(***************************************************************************)
(* Claims about Bomb, checked under SpecBomb.                              *)
(***************************************************************************)
\* C25 as stated: while a Bomb is active, every entity it overlaps has
\* bomb_immunity = TRUE without being destroyed by it, and that immunity is
\* cleared when the bomb reaches its duration.
C25_OverlappedImmune ==
    ent.op = "update" =>
        \A i \in ent.hits :
            /\ ent.targets[i].on
            /\ ent.targets[i].immune <=> ent.on

\* C25 as amended: an update() of an active Bomb removes every sprite of its
\* targets group that it overlaps from its groups and leaves their
\* bomb_immunity alone; it is the owner whose bomb_immunity the update sets,
\* and the update at which the bomb reaches its duration removes the bomb
\* and clears the owner's bomb_immunity.
C25_OwnerImmuneTargetsCleared ==
    ent.op = "update" =>
        /\ \A i \in ent.hits : ~ent.targets[i].on /\ ~ent.targets[i].immune
        /\ ent.on <=> ent.now - ent.fire_time < ent.duration
        /\ ent.owner_immune <=> ent.on

\* C25 witness: a bomb short of its duration, created at an earlier clock
\* value, has just overlapped two sprites.
C25_Witness ==
    /\ ent.op = "update"
    /\ Cardinality(ent.hits) = 2
    /\ ent.on
    /\ ent.owner_immune
    /\ ent.now > ent.fire_time

(***************************************************************************)
(* Missile (src/bullet.py)                                                 *)
(***************************************************************************)
\* A vector is held as its direction atan2(y, x) in whole degrees,
\* -179..180; Headings are the directions studied.
Headings == {-135, -90, -45, 0, 45, 90, 135, 180}

\* homing_speed in degrees per update
HomingSpeeds == {0, 45, 90, 225}

\* effect_length in clock units
EffectLengths == {1, 2}

Max(a, b) == IF a > b THEN a ELSE b

\* The direction of a vector brought back to -179..180.
Norm(a) == ((a + 179) % 360) - 179

\* Vector2.angle_to: the other vector's direction less this one's.
AngleTo(a, b) == b - a

\* Vector2.rotate by d degrees
Rotate(a, d) == Norm(a + d)

\* Missile.__init__ at clock value now: a Bullet with one sprite in its
\* targets group, the velocity's direction, homing_speed, effect_length,
\* _spawn_time. prev, tgt and late are what an observer has seen: the
\* direction before the last update() and the direction to the target it
\* read (<<>>: target on top of the missile), and whether an update() ran
\* at or after _spawn_time + effect_length.
MissileNew(now, h, s, len) ==
    [ op |-> "init", now |-> now, spawn_time |-> now, effect_length |-> len,
      homing_speed |-> s, heading |-> h, on |-> TRUE,
      targets |-> <<[owner |-> FALSE, immune |-> FALSE, damage |-> 0]>>,
      calls |-> <<>>, hits |-> <<>>, total |-> 0,
      prev |-> h, tgt |-> <<>>, late |-> FALSE ]

\* Mutant: the velocity is rotated by +turn.
HomeTowardTargetWrongSign(e, t) ==
    IF t = <<>> THEN e
    ELSE LET current_angle == AngleTo(e.heading, 0)
             target_angle  == AngleTo(t[1], 0)
             angle_diff    == ((target_angle - current_angle + 180) % 360) - 180
             turn == Max(0 - e.homing_speed, Min(e.homing_speed, angle_diff))
         IN  [e EXCEPT !.heading = Rotate(@, turn)]

\* Missile._home_toward_target, the direction to the target being t[1]
HomeTowardTarget(e, t) ==
    IF t = <<>> THEN e
    ELSE LET current_angle == AngleTo(e.heading, 0)
             target_angle  == AngleTo(t[1], 0)
             angle_diff    == ((target_angle - current_angle + 180) % 360) - 180
             turn == Max(0 - e.homing_speed, Min(e.homing_speed, angle_diff))
         IN  [e EXCEPT !.heading = Rotate(@, 0 - turn)]

\* Mutant: the death check Entity gives every sprite (health <= 0; a
\* missile's health is 1).
MissileCheckDeathInherited(e) == e

\* Missile._check_death
MissileCheckDeath(e) ==
    IF e.now - e.spawn_time >= e.effect_length
    THEN [e EXCEPT !.on = FALSE]
    ELSE e

\* Missile.update: _home_toward_target, then Entity.update: the move (the
\* acceleration of every missile the patterns build is zero, so the
\* velocity keeps its direction), _constrain_movement, check_collisions,
\* _check_death.
MissileUpdate(e, t, off, hits) ==
    MissileCheckDeath(
        BulletCheckCollisions(
            BulletConstrain(HomeTowardTarget(e, t), off), hits))

InitMissile ==
    /\ clock = 0
    /\ events = <<>>
    /\ conditional_events = <<>>
    /\ start_time = 0
    /\ waves_done = FALSE
    /\ flag = FALSE
    /\ hist = HistInit
    /\ world = NoBoss
    /\ frame = FrameInit
    /\ obs = ObsInit
    /\ pat = NoPattern
    /\ form = NoFormation
    /\ game = NoGame
    /\ \E c \in 0..(MaxClock - 1), h \in {0, 135}, s \in HomingSpeeds,
          len \in EffectLengths :
          ent = MissileNew(c, h, s, len)

\* The group's update() reaches the missile, which is in its groups.
MissileRun ==
    \E t \in {<<>>} \cup {<<h>> : h \in Headings}, off \in BOOLEAN, hits \in HitLists(1) :
        /\ ent.on
        /\ ent' = [MissileUpdate([ent EXCEPT !.calls = <<>>], t, off, hits)
                      EXCEPT !.op = "update", !.hits = hits,
                             !.prev = ent.heading, !.tgt = t,
                             !.late = @ \/ ent.now - ent.spawn_time
                                             >= ent.effect_length]
        /\ UNCHANGED restOfEntity

\* pygame.time.get_ticks() advances between calls.
MissileClock ==
    /\ ent.now < MaxClock
    /\ ent' = [ent EXCEPT !.now = @ + 1, !.op = "other", !.calls = <<>>,
                          !.hits = <<>>, !.prev = ent.heading,
                          !.tgt = <<>>]
    /\ UNCHANGED restOfEntity

NextMissile ==
    \/ MissileRun
    \/ MissileClock

SpecMissile == InitMissile /\ [][NextMissile]_vars

(***************************************************************************)
(* Claims about Missile, checked under SpecMissile.                        *)
(***************************************************************************)
\* The angle between two directions, 0..180.
AngDist(a, b) == Min((a - b) % 360, 360 - ((a - b) % 360))

\* C26: for every target position, one Missile update changes the heading
\* of its velocity by at most homing_speed degrees, and with the target
\* heading held fixed the angle between heading and target heading does not
\* grow over the update.
C26_HomingBounded ==
    ent.op = "update" =>
        /\ AngDist(ent.heading, ent.prev) <= ent.homing_speed
        /\ ent.tgt # <<>> =>
              AngDist(ent.heading, ent.tgt[1])
                  <= AngDist(ent.prev, ent.tgt[1])
        /\ ent.tgt = <<>> => ent.heading = ent.prev

\* C26 witness: a missile pointing 135 degrees away from its target has
\* turned by its full homing_speed of 45 degrees toward it.
C26_Witness ==
    /\ ent.op = "update"
    /\ ent.tgt # <<>>
    /\ ent.homing_speed = 45
    /\ AngDist(ent.prev, ent.tgt[1]) = 135
    /\ AngDist(ent.heading, ent.tgt[1]) = 90

\* C27: a Missile is out of all groups after the first update() at which
\* clock - spawn time >= effect_length, whether or not it hit anything, and
\* once out it is never in a group again.
C27_MissileExpires ==
    /\ [](ent.late => ~ent.on)
    /\ [][~ent.on => ~ent'.on]_vars

\* C27 witness: a missile that never hit anything and stayed on the canvas
\* has been removed by an update at its effect_length.
C27_Witness ==
    /\ ent.op = "update"
    /\ ent.late
    /\ ~ent.on
    /\ ent.total = 0
    /\ ent.hits = <<>>
    /\ ent.now - ent.spawn_time = ent.effect_length

(***************************************************************************)
(* The headings of the shots of FanPattern, CirclePattern, SnowflakePattern *)
(* and SpiralPattern (src/pattern.py)                                      *)
(***************************************************************************)
\* The largest bullets_per_shot studied.
MaxShot == 6

\* bullets_per_shot: the counts for which 360 / n is a whole number of
\* degrees.
ShotCounts == {n \in 1..MaxShot : 360 % n = 0}

\* FanPattern angle lists, among them those of fast_popcorn1 and
\* fast_popcorn4.
FanLists ==
    { <<0>>, <<0, 60>>, <<0, 20, 40>>, <<0, 80, 120>>, <<0, 2, 5>>,
      <<0, 40, 80, 120>> }

\* The headings from the owner to the player that an aimed pattern reads.
Aims == {0, 30}

ShotDefs ==
    [kind : {"circle"}, n : ShotCounts, delay : {0, 1}, step : {0},
     intra : {0}]
    \cup [kind : {"snowflake"}, n : ShotCounts, delay : {0},
          step : {10, 350}, intra : {0}]
    \cup [kind : {"spiral"}, n : ShotCounts, delay : {0}, step : {7, 100},
          intra : {0}]
    \cup { [kind |-> "fan", n |-> Len(a), delay |-> 0, step |-> 0,
            intra |-> 0, angles |-> a, aimed |-> b] :
              a \in FanLists, b \in BOOLEAN }

\* A pattern just constructed, at clock value 0. shot, prior and aimAt are
\* what an observer has seen: the headings of the last shot, those of the
\* shot before it, the aim heading of the last shot; shots counts the shots
\* (up to 2).
InitShot ==
    /\ clock = 0
    /\ events = <<>>
    /\ conditional_events = <<>>
    /\ start_time = 0
    /\ waves_done = FALSE
    /\ flag = FALSE
    /\ hist = HistInit
    /\ world = NoBoss
    /\ frame = FrameInit
    /\ obs = ObsInit
    /\ form = NoFormation
    /\ game = NoGame
    /\ ent = NoEntity
    /\ \E d \in ShotDefs :
          pat = [ op |-> "init", now |-> 0, p |-> PatternNew(d),
                  shot |-> <<>>, prior |-> <<>>, aimAt |-> 0, shots |-> 0 ]

\* pattern.update() at the current clock value
ShotUpdate ==
    LET p2    == PatternUpdate(pat.p, pat.now)
        fired == Emitted(pat.p, p2) # <<>>
    IN  /\ Len(p2.projectiles) <= MaxShot
        /\ pat' = [pat EXCEPT
                     !.p = p2,
                     !.op = "update",
                     !.shot = IF fired THEN Emitted(pat.p, p2) ELSE @,
                     !.prior = IF fired THEN pat.shot ELSE @,
                     !.aimAt = IF ~fired THEN @
                               ELSE IF pat.p.aimed THEN pat.p.aim ELSE 0,
                     !.shots = IF fired THEN Min(@ + 1, 2) ELSE @]
        /\ UNCHANGED restOfPattern

\* pattern.kill_projectiles()
ShotKillProjectiles ==
    /\ pat.p.projectiles # <<>>
    /\ pat' = [pat EXCEPT !.p = KillProjectiles(@), !.op = "other"]
    /\ UNCHANGED restOfPattern

\* The player moves: the heading from the owner to the player changes.
ShotAim ==
    \E a \in Aims \ {pat.p.aim} :
        /\ pat.p.aimed
        /\ pat' = [pat EXCEPT !.p.aim = a, !.op = "other"]
        /\ UNCHANGED restOfPattern

\* pygame.time.get_ticks() advances between calls.
ShotTick ==
    /\ pat.now < MaxClock
    /\ pat' = [pat EXCEPT !.now = @ + 1, !.op = "other"]
    /\ UNCHANGED restOfPattern

NextShot ==
    \/ ShotUpdate
    \/ ShotKillProjectiles
    \/ ShotAim
    \/ ShotTick

SpecShot == InitShot /\ [][NextShot]_vars

(***************************************************************************)
(* Claims about the headings of a shot, checked under SpecShot.            *)
(***************************************************************************)
\* n times the offset of the i-th bullet of the last shot from the aim
\* heading of that shot (FanPattern).
FanOffset(i) == pat.shot[i] - pat.p.n * pat.aimAt

\* C28 as stated: for every FanPattern angle list, the emission headings of
\* one shot are symmetric about the aim heading: for each bullet emitted at
\* aim + d there is a bullet emitted at aim - d.
C28_FanSymmetric ==
    (pat.p.kind = "fan" /\ pat.shots >= 1) =>
        \A i \in DOMAIN pat.shot :
            \E j \in DOMAIN pat.shot : FanOffset(j) = 0 - FanOffset(i)

\* The angle list is symmetric about the middle of its first and last
\* entries.
ListSymmetric(a) ==
    \A i \in DOMAIN a : \E j \in DOMAIN a : a[i] + a[j] = a[1] + a[Len(a)]

\* C28 as amended: one shot of a FanPattern emits one bullet per entry of
\* the angle list, at aim + (entry - mean of the list), so the offsets from
\* the aim heading sum to zero; the set of headings is symmetric about the
\* aim heading when the angle list is symmetric about its own middle.
C28_FanCentredOnMean ==
    (pat.p.kind = "fan" /\ pat.shots >= 1) =>
        /\ Len(pat.shot) = Len(pat.p.angles)
        /\ \A i \in DOMAIN pat.shot :
              FanOffset(i) = pat.p.n * pat.p.angles[i] - Sum(pat.p.angles)
        /\ Sum([i \in DOMAIN pat.shot |-> FanOffset(i)]) = 0
        /\ ListSymmetric(pat.p.angles) =>
              \A i \in DOMAIN pat.shot :
                  \E j \in DOMAIN pat.shot : FanOffset(j) = 0 - FanOffset(i)

\* C28 witness: an aimed FanPattern with the angles 0, 80, 120 has fired
\* with the player at heading 30.
C28_Witness ==
    /\ pat.p.kind = "fan"
    /\ pat.p.angles = <<0, 80, 120>>
    /\ pat.p.aimed
    /\ pat.aimAt = 30
    /\ pat.op = "update"
    /\ pat.shots >= 1

C30_SpiralAdvancesByS ==
    pat.p.kind = "spiral" =>
        /\ pat.p.angle \in 0..359
        /\ pat.shots = 2 =>
              (pat.shot[1] - pat.prior[1]) % 360 = pat.p.step % 360

\* C30 as amended: within a shot each bullet's angle is the previous
\* bullet's advanced by S (mod 360), so the base angle of each shot is the
\* base angle of the previous shot advanced by N * S (mod 360); the
\* accumulator stays in [0, 360) after every shot.
C30_SpiralAdvancesByNS ==
    pat.p.kind = "spiral" =>
        /\ pat.p.angle \in 0..359
        /\ pat.shots >= 1 =>
              /\ Len(pat.shot) = pat.p.n
              /\ \A i \in 1..(pat.p.n - 1) :
                    (pat.shot[i + 1] - pat.shot[i]) % 360 = pat.p.step % 360
              /\ (pat.p.angle - pat.shot[pat.p.n]) % 360 = pat.p.step % 360
        /\ pat.shots = 2 =>
              (pat.shot[1] - pat.prior[1]) % 360
                  = (pat.p.n * pat.p.step) % 360

\* C30 witness: a SpiralPattern of four bullets with spread_angle 100 has
\* fired twice and its accumulator has wrapped.
C30_Witness ==
    /\ pat.p.kind = "spiral"
    /\ pat.p.n = 4
    /\ pat.p.step = 100
    /\ pat.shots = 2
    /\ pat.p.angle < pat.shot[1]

(***************************************************************************)
(* Patterns at the edges of their parameters: aimed patterns with the      *)
(* player anywhere around or on the owner, a negative delay, a burst of no *)
(* bullets (src/pattern.py)                                                *)
(***************************************************************************)
\* The headings from the owner to the player, measured from straight down:
\* atan2 - 90, atan2 being in (-180, 180].
AimHeadings == {-225, -180, -135, -90, -45, 0, 45, 90}

\* aim_speed of a FanLaserPattern, in degrees per update()
AimSpeeds == {0, 45, 100}

\* The constructor arguments: every subclass that can aim, aimed; a
\* CirclePattern and a SinglePattern with a negative delay; a BurstPattern
\* with bullets_per_shot = 0.
EdgeDefs ==
    [kind : {"fanlaser"}, n : {2}, delay : {0}, step : {90}, intra : {0},
     aimed : {TRUE}, aim_speed : AimSpeeds]
    \cup [kind : NormalizeKinds, n : {2}, delay : {0, 1}, step : {10},
          intra : {0}, aimed : {TRUE}]
    \cup [kind : {"fan"}, n : {3}, delay : {0, 1}, step : {0}, intra : {0},
          angles : {<<0, 20, 40>>}, aimed : {TRUE}]
    \cup [kind : {"burst"}, n : {2}, delay : {1}, step : {20}, intra : {1},
          aimed : {TRUE}]
    \cup [kind : {"circle", "singleshot"}, n : {2}, delay : {-1},
          step : {0}, intra : {0}]
    \cup [kind : {"burst"}, n : {0}, delay : {0, 1}, step : {20},
          intra : {0, 1}]

\* What an observer keeps of the pattern as it was before the last
\* update(): its orientation, flags and the length of its list.
WasInit == [angle |-> 0, spawned |-> FALSE, active |-> FALSE, listed |-> 0]

InitEdge ==
    /\ clock = 0
    /\ events = <<>>
    /\ conditional_events = <<>>
    /\ start_time = 0
    /\ waves_done = FALSE
    /\ flag = FALSE
    /\ hist = HistInit
    /\ world = NoBoss
    /\ frame = FrameInit
    /\ obs = ObsInit
    /\ form = NoFormation
    /\ game = NoGame
    /\ ent = NoEntity
    /\ \E d \in EdgeDefs :
          pat = [ op |-> "init", now |-> 0, p |-> PatternNew(d),
                  was |-> WasInit, created |-> FALSE ]

\* pattern.update() at the current clock value. An exception ends the
\* program: nothing follows it.
EdgeUpdate ==
    LET p2 == PatternUpdate(pat.p, pat.now)
    IN  /\ ~pat.p.raised
        /\ Len(p2.projectiles) <= 2 * MaxProj
        /\ pat' = [pat EXCEPT
                     !.p = p2,
                     !.op = "update",
                     !.was = [angle |-> pat.p.angle,
                              spawned |-> pat.p.spawned,
                              active |-> pat.p.active,
                              listed |-> Len(pat.p.projectiles)],
                     !.created = @ \/ Len(p2.projectiles)
                                        > Len(pat.p.projectiles)]
        /\ UNCHANGED restOfPattern

\* pattern.kill_projectiles()
EdgeKillProjectiles ==
    /\ ~pat.p.raised
    /\ pat.p.projectiles # <<>>
    /\ pat' = [pat EXCEPT !.p = KillProjectiles(@), !.op = "other",
                          !.was = WasInit]
    /\ UNCHANGED restOfPattern

\* pattern.active is assigned (boss.py 162, pattern.py 934).
EdgeSetActive ==
    /\ ~pat.p.raised
    /\ pat' = [pat EXCEPT !.p.active = ~@, !.op = "other", !.was = WasInit]
    /\ UNCHANGED restOfPattern

\* The player moves around the owner, or onto it.
EdgeMove ==
    \E a \in AimHeadings, z \in BOOLEAN :
        /\ ~pat.p.raised
        /\ pat.p.aimed
        /\ <<a, z>> # <<pat.p.aim, pat.p.zero>>
        /\ z => a = 0
        /\ pat' = [pat EXCEPT !.p.aim = a, !.p.zero = z, !.op = "other",
                              !.was = WasInit]
        /\ UNCHANGED restOfPattern

\* pygame.time.get_ticks() advances between calls.
EdgeTick ==
    /\ ~pat.p.raised
    /\ pat.now < MaxClock
    /\ pat' = [pat EXCEPT !.now = @ + 1, !.op = "other", !.was = WasInit]
    /\ UNCHANGED restOfPattern

NextEdge ==
    \/ EdgeUpdate
    \/ EdgeKillProjectiles
    \/ EdgeSetActive
    \/ EdgeMove
    \/ EdgeTick

SpecEdge == InitEdge /\ [][NextEdge]_vars

(***************************************************************************)
(* Claims about patterns at the edges of their parameters, checked under   *)
(* SpecEdge.                                                               *)
(***************************************************************************)
\* An update() of an aimed FanLaserPattern has just returned.
FanLaserUpdated ==
    /\ pat.p.kind = "fanlaser"
    /\ pat.p.aimed
    /\ pat.op = "update"
    /\ ~pat.p.raised

\* C31 as stated: every update() of an aimed FanLaserPattern, the one that
\* spawns the beams included, changes the base orientation by at most
\* aim_speed degrees (shortest angular distance mod 360) and leaves it in
\* [0, 360).
C31_TurnCappedEveryUpdate ==
    FanLaserUpdated =>
        /\ AngDist(pat.p.angle, pat.was.angle) <= pat.p.aim_speed
        /\ pat.p.angle \in 0..359

\* C31 as amended: every update() of an aimed FanLaserPattern other than
\* the one that spawns the beams changes the base orientation by at most
\* aim_speed degrees and, when the pattern is active, leaves it in
\* [0, 360); the update that spawns the beams sets the orientation to the
\* heading of the player, which lies in (-90, 270].
C31_TurnCappedAfterSpawn ==
    FanLaserUpdated =>
        /\ pat.was.spawned =>
              AngDist(pat.p.angle, pat.was.angle) <= pat.p.aim_speed
        /\ (pat.was.spawned /\ pat.was.active) => pat.p.angle \in 0..359
        /\ (~pat.was.spawned /\ pat.was.active) =>
              /\ pat.p.spawned
              /\ pat.p.angle = pat.p.aim + 180
              /\ pat.p.angle \in -89..270
        /\ ~pat.was.active => pat.p.angle = pat.was.angle

\* C31 witness: a spawned fan with aim_speed 45 has turned, by a clamped
\* step that crossed 360 and did not yet reach the heading of the player.
C31_Witness ==
    /\ FanLaserUpdated
    /\ pat.was.spawned
    /\ pat.was.active
    /\ pat.p.aim_speed = 45
    /\ pat.was.angle = 315
    /\ pat.p.angle = 0
    /\ pat.p.aim + 180 = 45

\* C32: when an aimed pattern performs its firing or tracking step while
\* the owner's centre coincides with the player's centre, the step
\* completes without raising.
C32_ZeroAimNoRaise ==
    (pat.p.aimed /\ pat.p.zero /\ pat.op = "update") => ~pat.p.raised

\* C33: a pattern constructed with a negative delay, and a burst pattern
\* with bullets_per_shot = 0, never creates a projectile and never raises.
C33_NeverFires ==
    (pat.p.delay < 0 \/ (pat.p.kind = "burst" /\ pat.p.n = 0)) =>
        /\ ~pat.created
        /\ ~pat.p.raised

(***************************************************************************)
(* position and rect of the entities, along one axis (src/entity.py,       *)
(* src/player.py, src/formation.py, src/pattern.py)                        *)
(*                                                                         *)
(* position is a Vector2 of floats and rect a pygame.Rect of integers.     *)
(* Both are held here in half pixels, so that a rect coordinate is always  *)
(* even.                                                                   *)
(***************************************************************************)
\* The width of the canvas studied, in pixels.
MaxX == 6

\* Half the width of the player's rect, in half pixels (one pixel).
PlayerHalf == 2

\* `rect.center = position`: a Rect keeps whole pixels, the fraction of a
\* float coordinate is dropped.
ToRect(x) == IF x >= 0 THEN 2 * (x \div 2) ELSE 0 - 2 * ((0 - x) \div 2)

\* The velocities per update, in half pixels: 0, 2 and 2.5 pixels either
\* way (spawner.py: Vector2(2.5, ...), Vector2(-2.5, 2)).
Velocities == {-5, -4, 0, 4, 5}

\* The subclass of Entity.
MoveKinds == {"bullet", "enemy", "boss", "player", "site", "offsetsite",
              "laser", "bomb"}

\* Entity.__init__: rect = image.get_rect(center = position)
MoveNew(k, x, v, a) ==
    [ op |-> "init", kind |-> k, position |-> x, velocity |-> v,
      accel |-> a, rect |-> ToRect(x), on |-> TRUE ]

\* Entity._update_position
UpdatePosition(e) ==
    LET v == e.velocity + e.accel
        x == e.position + v
    IN  [e EXCEPT !.velocity = v, !.position = x, !.rect = ToRect(x)]

\* _constrain_movement of Bullet, Missile and the enemies: kill() once the
\* rect has left the canvas.
ConstrainOffscreen(e) ==
    IF e.rect + 2 < 0 \/ e.rect - 2 > 2 * MaxX
    THEN [e EXCEPT !.on = FALSE] ELSE e

\* Player._constrain_movement: rect.clamp_ip(screen), then
\* position = Vector2(rect.center)
PlayerConstrain(e) ==
    LET r == IF e.rect < PlayerHalf THEN PlayerHalf
             ELSE IF e.rect > 2 * MaxX - PlayerHalf
             THEN 2 * MaxX - PlayerHalf ELSE e.rect
    IN  [e EXCEPT !.rect = r, !.position = r]

\* update() of an entity. v is what the movement function or the keyboard
\* makes of the velocity (enemies, boss, player); c is the centre of the
\* parent plus the offset (OffsetFiringSite). FiringSite.update and
\* Laser.update leave position and rect alone; Bomb._update_position
\* rebuilds the rect about its own centre.
MoveEntityUpdate(e, v, c) ==
    CASE e.kind = "bullet" -> ConstrainOffscreen(UpdatePosition(e))
      [] e.kind \in {"enemy", "boss"} ->
             ConstrainOffscreen(UpdatePosition([e EXCEPT !.velocity = v]))
      [] e.kind = "player" ->
             PlayerConstrain(UpdatePosition([e EXCEPT !.velocity = v]))
      [] e.kind = "offsetsite" ->
             [e EXCEPT !.position = c, !.rect = ToRect(c)]
      [] e.kind = "bomb" -> [e EXCEPT !.rect = ToRect(e.rect)]
      [] OTHER -> e

\* Formation.update: site.position.y += STAGE_SCROLL_SPEED;
\* site.rect.center = site.position
ScrollSite(e) ==
    LET x == e.position + 2 * ORIGINAL_SCROLL_SPEED
    IN  [e EXCEPT !.position = x, !.rect = ToRect(x)]

\* The laser patterns' update(): laser.rect = image.get_rect(center =
\* owner.rect.center); laser.position = Vector2(laser.rect.center)
RepositionLaser(e, c) == [e EXCEPT !.rect = ToRect(c), !.position = ToRect(c)]

\* The coordinates studied, in half pixels.
Coords == 0..(2 * MaxX)

InitMove ==
    /\ clock = 0
    /\ events = <<>>
    /\ conditional_events = <<>>
    /\ start_time = 0
    /\ waves_done = FALSE
    /\ flag = FALSE
    /\ hist = HistInit
    /\ world = NoBoss
    /\ frame = FrameInit
    /\ obs = ObsInit
    /\ pat = NoPattern
    /\ form = NoFormation
    /\ game = NoGame
    /\ \E k \in MoveKinds, x \in {2, 6}, v \in Velocities, a \in {0, 1} :
          /\ k # "bullet" => v = 0 /\ a = 0
          /\ ent = MoveNew(k, x, v, a)

\* sprite.update() as Group.update() calls it
MoveUpdate ==
    \E v \in Velocities, c \in Coords :
        /\ ent.on
        /\ ent.kind \notin {"enemy", "boss", "player"} => v = 0
        /\ ent.kind # "offsetsite" => c = 0
        /\ ent' = [MoveEntityUpdate(ent, v, c) EXCEPT !.op = "update"]
        /\ ent'.position \in -8..(2 * MaxX + 8)
        /\ UNCHANGED restOfEntity

\* Formation.update() scrolls a firing site.
MoveScroll ==
    /\ ent.on
    /\ ent.kind = "site"
    /\ ent.position < 2 * MaxX
    /\ ent' = [ScrollSite(ent) EXCEPT !.op = "moved"]
    /\ UNCHANGED restOfEntity

\* A laser pattern's update() puts its laser on the owner.
MoveReposition ==
    \E c \in Coords :
        /\ ent.on
        /\ ent.kind = "laser"
        /\ c % 2 = 0
        /\ ent' = [RepositionLaser(ent, c) EXCEPT !.op = "moved"]
        /\ UNCHANGED restOfEntity

NextMove ==
    \/ MoveUpdate
    \/ MoveScroll
    \/ MoveReposition

SpecMove == InitMove /\ [][NextMove]_vars

\* C34: after every completed update() of an entity, and after every
\* laser-pattern or Formation update that repositions one, the entity's
\* rect centre equals its position.
C34_RectCentredOnPosition ==
    ent.op \in {"update", "moved"} => ent.rect = ent.position

(***************************************************************************)
(* The stages as stagebuilder.py builds them                               *)
(***************************************************************************)
\* The delays of the schedule, in order of magnitude: the waves
\* (START_TIME + 1 s and later), the kill of the static sites (40 s in
\* build_stage1), stage.mark_waves_done (46 s in build_stage1).
WaveTime == 1
KillTime == 2
MarkTime == 3

\* The clock runs long enough for a stage to be played and played again.
BuiltClock == 2 * MarkTime

\* build_stage1 ends its waves with kill_static_sites, build_stage2 to
\* build_stage4 with kill_all, build_stage5 has no waves, kill_all and
\* mark_waves_done at the same delay, and two bosses.
StageShapes == {"stage1", "stage2", "stage5"}

\* stage.schedule(...) in the order of the builder
BuiltEvents(shape) ==
    CASE shape = "stage1" ->
             << <<0, "start_mission">>, <<WaveTime, "wave">>,
                <<WaveTime, "midboss">>, <<KillTime, "kill_static_sites">>,
                <<MarkTime, "mark">> >>
      [] shape = "stage2" ->
             << <<0, "start_mission">>, <<WaveTime, "wave">>,
                <<WaveTime, "midboss">>, <<KillTime, "kill_all">>,
                <<MarkTime, "mark">> >>
      [] OTHER ->
             << <<0, "start_mission">>, <<WaveTime, "kill_all">>,
                <<WaveTime, "mark">> >>

\* stage.wait_until(...) in the order of the builder
BuiltWaits(shape) ==
    IF shape = "stage5"
    THEN << [cond |-> "no_more", action |-> "spawn_boss"],
            [cond |-> "no_more", action |-> "spawn_boss2"],
            [cond |-> "no_more", action |-> "show_end_banner"],
            [cond |-> "banner_done", action |-> "end_stage"] >>
    ELSE << [cond |-> "no_more", action |-> "spawn_boss"],
            [cond |-> "no_more", action |-> "show_end_banner"],
            [cond |-> "banner_done", action |-> "end_stage"] >>

\* The world at the top of build_stageN: the static FiringSites are created
\* in enemies, boss_spawned = False, end_banner = None.
GameNew(shape) ==
    [ op            |-> "built",
      shape         |-> shape,
      sites         |-> TRUE,     \* the STATIC_SITES are in enemies
      enemies       |-> 0,        \* enemies that fly through the screen
      wanderers     |-> 0,        \* enemies moved by boss_random_wander
      boss          |-> FALSE,    \* a Boss is in enemies
      formations    |-> <<>>,     \* the group formations
      boss_spawned  |-> FALSE,
      boss2_spawned |-> FALSE,
      banner        |-> "none",   \* end_banner: None, typing, done
      state         |-> "stage",  \* "next" once end_stage has run
      updated       |-> FALSE,    \* the stage was updated at this clock value
      log           |-> <<>> ]    \* what the callbacks have done, in order

RECURSIVE ScheduleAll(_, _, _)
ScheduleAll(c, evs, i) ==
    IF i > Len(evs) THEN c
    ELSE ScheduleAll(DoSchedule(c, evs[i][1], evs[i][2]), evs, i + 1)

RECURSIVE WaitAll(_, _, _)
WaitAll(c, ws, i) ==
    IF i > Len(ws) THEN c
    ELSE WaitAll(DoWaitUntil(c, ws[i]), ws, i + 1)

\* build_stageN(stage, player) on a handler whose lists are empty
BuildStage(shape, waves) ==
    LET c0 == [ events |-> <<>>, conds |-> <<>>, waves |-> waves,
                flag |-> FALSE, h |-> Seen(HistInit, "built"),
                g |-> GameNew(shape) ]
    IN  WaitAll(ScheduleAll(c0, BuiltEvents(shape), 1), BuiltWaits(shape), 1)

\* help.stage1 = StageHandler() at import and build_stage1 on it, or
\* end_stage of the stage before: help.stageN = StageHandler() and
\* build_stageN on it.
InitBuilt ==
    \E shape \in StageShapes :
        LET c == BuildStage(shape, StageNew(0).waves_done)
        IN  /\ clock = 0
            /\ start_time = StageNew(0).start_time
            /\ events = c.events
            /\ conditional_events = c.conds
            /\ waves_done = c.waves
            /\ flag = c.flag
            /\ hist = c.h
            /\ game = c.g
            /\ world = NoBoss
            /\ frame = FrameInit
            /\ obs = ObsInit
            /\ pat = NoPattern
            /\ form = NoFormation
            /\ ent = NoEntity

restOfBuilt == <<bossVars, pat, form, ent>>

\* main loop, case help.gamestate of 'stageN': current_stage.update()
BuiltStageUpdate ==
    /\ game.state = "stage"
    /\ \E c \in {UpdateResult} :
           /\ Install(c)
           /\ game' = [c.g EXCEPT !.op = "update", !.updated = TRUE]
    /\ UNCHANGED <<clock, start_time, restOfBuilt>>

\* Formation.update() at its spawn time: spawn() creates its enemies in
\* enemies; the BigEnemy of midboss_w1 moves by boss_random_wander.
BuiltFormationSpawn ==
    \E i \in DOMAIN game.formations :
        /\ ~game.formations[i].spawned
        /\ game' = [game EXCEPT
               !.op = "spawn",
               !.formations[i].spawned = TRUE,
               !.enemies = IF game.formations[i].kind = "popcorn"
                           THEN @ + 1 ELSE @,
               !.wanderers = IF game.formations[i].kind = "midboss"
                             THEN @ + 1 ELSE @]
        /\ UNCHANGED <<stageVars, restOfBuilt>>

\* Formation.update() of a spawned formation whose firing sites have all
\* scrolled off the screen: self.kill()
BuiltFormationGone ==
    \E i \in DOMAIN game.formations :
        /\ game.formations[i].spawned
        /\ game' = [game EXCEPT
               !.op = "formation_gone",
               !.formations = SubSeq(@, 1, i - 1) \o SubSeq(@, i + 1, Len(@))]
        /\ UNCHANGED <<stageVars, restOfBuilt>>

\* An enemy flies off the screen or ends its bezier path: kill()
BuiltEnemyLeaves ==
    /\ game.enemies > 0
    /\ game' = [game EXCEPT !.op = "enemy_left", !.enemies = @ - 1]
    /\ UNCHANGED <<stageVars, restOfBuilt>>

\* The player's bullets or bomb bring an enemy to health 0: _check_death
BuiltEnemyDestroyed ==
    /\ \/ /\ game.enemies > 0
          /\ game' = [game EXCEPT !.op = "enemy_destroyed", !.enemies = @ - 1]
       \/ /\ game.wanderers > 0
          /\ game' = [game EXCEPT !.op = "enemy_destroyed", !.wanderers = @ - 1]
    /\ UNCHANGED <<stageVars, restOfBuilt>>

\* The Boss runs out of phases or of health: kill()
BuiltBossGone ==
    /\ game.boss
    /\ game' = Logged([game EXCEPT !.op = "boss_gone", !.boss = FALSE], "gone")
    /\ UNCHANGED <<stageVars, restOfBuilt>>

\* The TypingBanner of show_end_banner has typed and shown its text
BuiltBannerDone ==
    /\ game.banner = "shown"
    /\ game' = [game EXCEPT !.op = "banner_done", !.banner = "done"]
    /\ UNCHANGED <<stageVars, restOfBuilt>>

\* The clock advances by one unit of the schedule, which is many frames:
\* the stage has been updated in between, and every formation, created
\* with spawn_time = pygame.time.get_ticks(), has spawned at its first
\* update, in the frame after the one that created it.
BuiltTick ==
    /\ clock < BuiltClock
    /\ game.updated \/ game.state = "next"
    /\ \A i \in DOMAIN game.formations : game.formations[i].spawned
    /\ clock' = clock + 1
    /\ hist' = Seen(hist, "tick")
    /\ game' = [game EXCEPT !.op = "tick", !.updated = FALSE]
    /\ UNCHANGED <<events, conditional_events, start_time, waves_done, flag,
                   restOfBuilt>>

\* The start callback of the menu, default_start_game: every sprite of
\* every group is killed, help.stage1.reset(), build_stage1(help.stage1,
\* player). help.stage1 is the handler of the stage played when that is
\* stage 1; a later stage is played only after end_stage of stage 1, whose
\* handler then has _waves_done set.
BuiltRestart ==
    LET w == IF game.shape = "stage1" THEN waves_done ELSE TRUE
        c == BuildStage("stage1", w)
    IN  /\ start_time' = clock
        /\ events' = c.events
        /\ conditional_events' = c.conds
        /\ waves_done' = c.waves
        /\ hist' = c.h
        /\ game' = c.g
        /\ UNCHANGED <<clock, flag, restOfBuilt>>

NextBuilt ==
    \/ BuiltStageUpdate
    \/ BuiltFormationSpawn
    \/ BuiltFormationGone
    \/ BuiltEnemyLeaves
    \/ BuiltEnemyDestroyed
    \/ BuiltBossGone
    \/ BuiltBannerDone
    \/ BuiltTick
    \/ BuiltRestart

SpecBuilt == InitBuilt /\ [][NextBuilt]_vars

\* The order in which a stage's milestones are to happen.
Milestones(shape) ==
    IF shape = "stage5"
    THEN <<"mark", "boss", "gone", "boss", "gone", "banner", "end">>
    ELSE <<"mark", "boss", "gone", "banner", "end">>

\* C35: in every built stage, stage.mark_waves_done, the spawn of the boss
\* (of each boss), its removal, the end banner and end_stage happen in this
\* order and each at most once: what has happened so far is always a prefix
\* of that order, so no boss spawns before mark_waves_done has fired and no
\* banner is shown before the boss has spawned and gone.
C35_MilestonesInOrder ==
    game.op # "none" =>
        /\ Len(game.log) <= Len(Milestones(game.shape))
        /\ game.log = SubSeq(Milestones(game.shape), 1, Len(game.log))

\* The clock advances past the last value that is kept: start_time is that
\* of construction, every delay of the schedule has passed, and no update
\* of the stage tells the later times apart.
BuiltLateTick ==
    /\ clock = BuiltClock
    /\ start_time = 0
    /\ game.updated \/ game.state = "next"
    /\ \A i \in DOMAIN game.formations : game.formations[i].spawned
    /\ hist' = Seen(hist, "tick")
    /\ game' = [game EXCEPT !.op = "tick", !.updated = FALSE]
    /\ UNCHANGED <<clock, events, conditional_events, start_time, waves_done,
                   flag, restOfBuilt>>

\* A stage played through while the player destroys no enemy other than the
\* boss and the game is not started again. The main loop keeps running:
\* whatever happens, current_stage.update() is called again after it (until
\* end_stage hands over to the next stage), global_sprites.update() moves
\* every formation, enemy, boss and banner, and the clock advances.
NextBuiltLive ==
    \/ BuiltStageUpdate
    \/ BuiltFormationSpawn
    \/ BuiltFormationGone
    \/ BuiltEnemyLeaves
    \/ BuiltBossGone
    \/ BuiltBannerDone
    \/ BuiltTick
    \/ BuiltLateTick

SpecBuiltLive ==
    /\ InitBuilt
    /\ [][NextBuiltLive]_vars
    /\ []<>(game.op = "update" \/ game.state = "next")
    /\ WF_vars(BuiltFormationSpawn)
    /\ WF_vars(BuiltFormationGone)
    /\ WF_vars(BuiltEnemyLeaves)
    /\ WF_vars(BuiltBossGone)
    /\ WF_vars(BuiltBannerDone)
    /\ WF_vars(BuiltTick)
    /\ WF_vars(BuiltLateTick)

\* stage.mark_waves_done has fired in the stage being played
Marked == \E i \in DOMAIN game.log : game.log[i] = "mark"

\* C39: in every built stage, once mark_waves_done has fired, the predicate
\* that spawns the boss eventually becomes true and the boss appears, under
\* continued ticking, even if the player destroys no non-boss enemy.
C39_BossEventuallySpawns == Marked ~> game.boss_spawned

(***************************************************************************)
(* Player: lives, the death animation and the invulnerability window       *)
(***************************************************************************)
\* Time in units of 1000 ms: _death_animation_duration = 1000,
\* _inv_duration = 2000, bomb_delay = 1000.
DeathAnimationDuration == 1
InvDuration == 2
BombDelay == 1

MaxLives == 2
MaxBombs == 2

\* Long enough for two cycles of hit, death animation, respawn and
\* invulnerability.
PlayerClock == 2 * (DeathAnimationDuration + InvDuration + 1)

\* Player.__init__ and the fields default_start_game sets after it.
PlayerNew(lives, bombs, max_bombs) ==
    [ lives              |-> lives,
      bombs              |-> bombs,
      max_bombs          |-> max_bombs,
      deaths             |-> 0,
      bomb_immunity      |-> FALSE,
      damage_inv         |-> TRUE,    \* _damage_inv
      inv_timer          |-> 0,       \* _inv_timer
      dying              |-> FALSE,   \* _death_animation_occuring
      death_timer        |-> 0,       \* _death_animation_timer
      previous_bomb_time |-> 0,
      in_group           |-> TRUE,    \* a member of players
      gamestate          |-> "stage1" ]

\* Mutant: a hit during the death animation counts.
PlayerTakeDamageWhileDying(p, now) ==
    IF p.bomb_immunity \/ p.damage_inv THEN p
    ELSE [p EXCEPT !.lives = @ - 1,
                   !.deaths = @ + 1,
                   !.bombs = Min(p.max_bombs, @ + 1),
                   !.dying = TRUE,
                   !.death_timer = now]

\* Player.take_damage
PlayerTakeDamage(p, now) ==
    IF p.bomb_immunity \/ p.damage_inv \/ p.dying THEN p
    ELSE [p EXCEPT !.lives = @ - 1,
                   !.deaths = @ + 1,
                   !.bombs = Min(p.max_bombs, @ + 1),
                   !.dying = TRUE,
                   !.death_timer = now]

\* Player._allow_inv
PlayerAllowInv(p, now) == [p EXCEPT !.damage_inv = TRUE, !.inv_timer = now]

\* Player._respawn
PlayerRespawn(p, now) == PlayerAllowInv(p, now)

\* Player._check_bomb and Player._bomb; the Bomb sets owner.bomb_immunity
\* when it is created.
PlayerCheckBomb(p, now) ==
    IF now - p.previous_bomb_time >= BombDelay
    THEN LET p1 == [p EXCEPT !.previous_bomb_time = now]
         IN  IF p1.bombs > 0
             THEN [p1 EXCEPT !.bombs = @ - 1, !.bomb_immunity = TRUE]
             ELSE p1
    ELSE p

\* Player.update with the b key pressed or not
PlayerUpdate(p, now, b) ==
    IF p.dying
    THEN IF now - p.death_timer >= DeathAnimationDuration
         THEN LET p1 == [p EXCEPT !.dying = FALSE]
              IN  IF p1.lives > 0 THEN PlayerRespawn(p1, now)
                  ELSE [p1 EXCEPT !.gamestate = "game_over",
                                  !.in_group = FALSE]
         ELSE p
    ELSE LET p1 == IF b THEN PlayerCheckBomb(p, now) ELSE p
         IN  IF p1.damage_inv /\ now - p1.inv_timer > InvDuration
             THEN [p1 EXCEPT !.damage_inv = FALSE]
             ELSE p1

InitPlayer ==
    \E lives \in 1..MaxLives, max_bombs \in 1..MaxBombs :
        \E bombs \in 0..(max_bombs + 1) :
            /\ ent = [ op     |-> "init",
                       kind   |-> "player",
                       now    |-> 0,
                       p      |-> PlayerNew(lives, bombs, max_bombs),
                       before |-> PlayerNew(lives, bombs, max_bombs),
                       lost   |-> 0 ]  \* lives lost since the last death
                                       \* animation ended
            /\ clock = 0
            /\ events = <<>>
            /\ conditional_events = <<>>
            /\ start_time = 0
            /\ waves_done = FALSE
            /\ flag = FALSE
            /\ hist = HistInit
            /\ world = NoBoss
            /\ frame = FrameInit
            /\ obs = ObsInit
            /\ pat = NoPattern
            /\ form = NoFormation
            /\ game = NoGame

\* A bullet, laser or missile whose targets are players collides with the
\* player: target.take_damage()
PlTakeDamage ==
    /\ ent.p.in_group
    /\ LET q == PlayerTakeDamage(ent.p, ent.now)
       IN  ent' = [ent EXCEPT !.op = "take_damage", !.before = ent.p,
                              !.p = q,
                              !.lost = @ + (ent.p.lives - q.lives)]
    /\ UNCHANGED restOfEntity

\* global_sprites.update(): Player.update()
PlUpdate ==
    \E b \in BOOLEAN :
        /\ ent.p.in_group
        /\ LET q == PlayerUpdate(ent.p, ent.now, b)
           IN  ent' = [ent EXCEPT !.op = "update", !.before = ent.p,
                                  !.p = q,
                                  !.lost = IF ent.p.dying /\ ~q.dying
                                           THEN 0 ELSE @]
        /\ UNCHANGED restOfEntity

\* Bomb._check_death at the end of the bomb: owner.bomb_immunity = False
PlBombEnds ==
    /\ ent.p.bomb_immunity
    /\ ent' = [ent EXCEPT !.op = "bomb_ends", !.before = ent.p,
                          !.p.bomb_immunity = FALSE]
    /\ UNCHANGED restOfEntity

PlTick ==
    /\ ent.now < PlayerClock
    /\ ent' = [ent EXCEPT !.op = "tick", !.before = ent.p, !.now = @ + 1]
    /\ UNCHANGED restOfEntity

NextPlayer ==
    \/ PlTakeDamage
    \/ PlUpdate
    \/ PlBombEnds
    \/ PlTick

SpecPlayer == InitPlayer /\ [][NextPlayer]_vars

Immune(p) == p.bomb_immunity \/ p.damage_inv \/ p.dying

\* C37: Player.take_damage() changes nothing while the player is
\* bomb-immune, in the invulnerability window or in the death animation;
\* otherwise it takes exactly one life and starts the death animation, and
\* leaves bombs <= max_bombs. The update that ends the death animation
\* respawns the player invulnerable if lives > 0, and otherwise sets the
\* game state to 'game_over' and removes the player. No more than one life
\* is lost per death animation.
C37_TakeDamageOncePerDeath ==
    /\ ent.op = "take_damage" /\ Immune(ent.before) => ent.p = ent.before
    /\ ent.op = "take_damage" /\ ~Immune(ent.before) =>
           /\ ent.p.lives = ent.before.lives - 1
           /\ ent.p.dying
           /\ ent.p.death_timer = ent.now
           /\ ent.p.bombs <= ent.p.max_bombs
    /\ ent.op = "update" /\ ent.before.dying /\ ~ent.p.dying =>
           IF ent.before.lives > 0
           THEN /\ ent.p.damage_inv
                /\ ent.p.inv_timer = ent.now
                /\ ent.p.in_group
                /\ ent.p.gamestate = ent.before.gamestate
                /\ ent.p.lives = ent.before.lives
           ELSE /\ ent.p.gamestate = "game_over"
                /\ ~ent.p.in_group
    /\ ent.lost <= 1
    /\ ent.p.lives >= 0

\* A second death: the player was hit, died, respawned, outlasted the
\* invulnerability window and was hit again, with the last life.
C37_Witness ==
    /\ ent.op = "take_damage"
    /\ ent.p.deaths = 2
    /\ ent.p.lives = 0
    /\ ent.p.dying
    /\ ent.lost = 1

(***************************************************************************)
(* Laser: the warning and the deadly mode                                  *)
(***************************************************************************)
\* The delay and effect_length a Laser is created with.
LaserTimes == 0..MaxClock

\* Long enough for a laser with the longest times to go through its cycle.
LaserClock == 3 * MaxClock

\* owner.health: -1 for a FiringSite that cannot be destroyed, positive
\* for a living owner, 0 for a dead one.
OwnerHealths == {-1, 0, 1}

\* Laser.__init__ at time now (health 1 from Bullet.__init__)
LaserNew(delay, effect_length, now) ==
    [ warning                |-> TRUE,
      state                  |-> "left",
      delay                  |-> delay,
      effect_length          |-> effect_length,
      previous_finished_time |-> now,
      previous_started_time  |-> 0,
      health                 |-> 1,
      in_group               |-> TRUE ]

\* Mutant: the laser becomes deadly at its first update.
LaserActivateAtOnce(l, now) ==
    IF l.warning
    THEN [l EXCEPT !.warning = FALSE, !.previous_started_time = now]
    ELSE l

\* _update_state, "Check activation."
LaserActivate(l, now) ==
    IF l.warning /\ now - l.previous_finished_time >= l.delay
    THEN [l EXCEPT !.warning = FALSE, !.previous_started_time = now]
    ELSE l

\* _update_state, "Check deactivation."
LaserDeactivate(l, now) ==
    IF ~l.warning /\ now - l.previous_started_time >= l.effect_length
    THEN [l EXCEPT !.warning = TRUE, !.previous_finished_time = now]
    ELSE l

\* Laser._update_state
LaserUpdateState(l, now) ==
    LET l2 == LaserDeactivate(LaserActivate(l, now), now)
    IN  [l2 EXCEPT !.state = IF l2.warning THEN "left" ELSE "right"]

\* Entity._check_death
LaserCheckDeath(l) == IF l.health <= 0 THEN [l EXCEPT !.in_group = FALSE] ELSE l

\* Laser.check_collisions with one sprite in targets: whether it calls
\* target.take_damage()
LaserHits(t) == t.overlap /\ ~t.bomb_immunity

InitLaser ==
    \E d \in LaserTimes, e \in LaserTimes, oh \in OwnerHealths \ {0} :
        /\ ent = [ op      |-> "init",
                   kind    |-> "beam",
                   now     |-> 0,
                   l       |-> LaserNew(d, e, 0),
                   owner   |-> oh,       \* owner.health
                   target  |-> [overlap |-> FALSE, bomb_immunity |-> FALSE],
                   hit     |-> FALSE,    \* this operation called take_damage
                   everHit |-> FALSE,
                   since   |-> 0,        \* when the present mode began
                   endedW  |-> <<>>,     \* the length of a warning mode and
                   endedD  |-> <<>> ]    \* of a deadly mode this update ended
        /\ clock = 0
        /\ events = <<>>
        /\ conditional_events = <<>>
        /\ start_time = 0
        /\ waves_done = FALSE
        /\ flag = FALSE
        /\ hist = HistInit
        /\ world = NoBoss
        /\ frame = FrameInit
        /\ obs = ObsInit
        /\ pat = NoPattern
        /\ form = NoFormation
        /\ game = NoGame

Quiet(e, name) ==
    [e EXCEPT !.op = name, !.hit = FALSE, !.endedW = <<>>, !.endedD = <<>>]

\* Laser.update
LzUpdate ==
    /\ ent.l.in_group
    /\ IF ~(ent.owner > 0) /\ ent.owner # -1
       THEN ent' = [Quiet(ent, "update") EXCEPT !.l.in_group = FALSE]
       ELSE LET now == ent.now
                l1  == LaserActivate(ent.l, now)
                l2  == LaserDeactivate(l1, now)
                l3  == LaserUpdateState(ent.l, now)
                on  == ent.l.warning /\ ~l1.warning
                off == ~l1.warning /\ l2.warning
                h   == ~l3.warning /\ now % 2 = 0 /\ LaserHits(ent.target)
            IN  ent' = [ent EXCEPT
                    !.op = "update",
                    !.l = LaserCheckDeath(l3),
                    !.hit = h,
                    !.everHit = @ \/ h,
                    !.endedW = IF on THEN <<now - ent.since>> ELSE <<>>,
                    !.endedD = IF off
                               THEN <<now - (IF on THEN now ELSE ent.since)>>
                               ELSE <<>>,
                    !.since = IF on \/ off THEN now ELSE @]
    /\ UNCHANGED restOfEntity

\* The owner is destroyed.
LzOwnerDies ==
    /\ ent.owner > 0
    /\ ent' = [Quiet(ent, "owner_dies") EXCEPT !.owner = 0]
    /\ UNCHANGED restOfEntity

\* The player moves into or out of the beam.
LzTargetMoves ==
    /\ ent' = [Quiet(ent, "target_moves") EXCEPT !.target.overlap = ~@]
    /\ UNCHANGED restOfEntity

\* A bomb of the player begins or ends.
LzBomb ==
    /\ ent' = [Quiet(ent, "bomb") EXCEPT !.target.bomb_immunity = ~@]
    /\ UNCHANGED restOfEntity

LzTick ==
    /\ ent.now < LaserClock
    /\ ent' = [Quiet(ent, "tick") EXCEPT !.now = @ + 1]
    /\ UNCHANGED restOfEntity

NextLaser ==
    \/ LzUpdate
    \/ LzOwnerDies
    \/ LzTargetMoves
    \/ LzBomb
    \/ LzTick

SpecLaser == InitLaser /\ [][NextLaser]_vars

\* C36: after every Laser.update() state is 'left' exactly when the laser
\* is in warning mode and 'right' exactly when it is deadly; take_damage()
\* is called on a target only in an update in which the laser is deadly;
\* every warning mode lasts at least delay and every deadly mode at least
\* effect_length; hitting a target never removes the laser.
C36_LaserModes ==
    /\ ent.op = "update" =>
           /\ ent.l.state = "left" <=> ent.l.warning
           /\ ent.l.state = "right" <=> ~ent.l.warning
    /\ ent.hit => ent.op = "update" /\ ~ent.l.warning /\ ent.l.in_group
    /\ \A i \in DOMAIN ent.endedW : ent.endedW[i] >= ent.l.delay
    /\ \A i \in DOMAIN ent.endedD : ent.endedD[i] >= ent.l.effect_length

\* A laser with positive times that has hit its target ends its deadly
\* mode.
C36_Witness ==
    /\ ent.op = "update"
    /\ ent.l.delay > 0
    /\ ent.l.effect_length > 0
    /\ ent.everHit
    /\ ent.endedD # <<>>
    /\ ent.l.in_group

(***************************************************************************)
(* The boss and the menu                                                   *)
(***************************************************************************)
\* sprite.kill() on a projectile of a pattern: it leaves its groups and
\* stays in the pattern's list.
KillListed(top) ==
    [top EXCEPT !.subs = [s \in DOMAIN @ |->
        [@[s] EXCEPT !.projectiles = [j \in DOMAIN @ |->
                                         [@[j] EXCEPT !.on = FALSE]]]]]

\* MenuManager.clear_all: every sprite of global_sprites and of players, ui,
\* player_bullets, bullets, lasers, enemies, formations, banners and overlay
\* is killed; help.STAGE_SCROLL_SPEED is not assigned.
ClearAll(w) ==
    [w EXCEPT !.alive = FALSE,
              !.bombs = <<>>,
              !.sites = [k \in DOMAIN @ |-> [i \in DOMAIN @[k] |-> FALSE]],
              !.pats = [k \in DOMAIN @ |->
                           [i \in DOMAIN @[k] |-> KillListed(@[k][i])]]]

\* A start button of the menu, between two ticks: clear_all() and
\* start_game(), which builds stage 1 again and touches neither the boss
\* nor the scroll speed.
MenuStart ==
    /\ TickDone
    /\ world' = ClearAll(world)
    /\ obs' = [obs EXCEPT !.op = "clear_all", !.prevIdx = world.idx]
    /\ UNCHANGED <<frame, stageVars, partVars>>

NextBossMenu ==
    \/ BossTakeDamage
    \/ BossUpdate
    \/ BombStep
    \/ NewTick
    \/ MenuStart

SpecBossMenu == InitBoss /\ [][NextBossMenu]_vars

\* C40: in every reachable state in which no Boss is alive in any group,
\* help.STAGE_SCROLL_SPEED equals ORIGINAL_SCROLL_SPEED, whichever way the
\* boss was removed: by running out of phases, by the entity death check,
\* or by a menu's clear_all followed by a restart.
C40_ScrollRestoredWithoutBoss ==
    ~world.alive => world.scroll = ORIGINAL_SCROLL_SPEED

====
